---- MODULE Spec2Model ----
(***************************************************************************)
(* CHARRA remote attestation: the attester endpoint (src/src/attester.c)   *)
(* and the verifier endpoint (src/src/verifier.c) as state machines.       *)
(*                                                                         *)
(* Spec         : the attester (main loop, SIGINT, request handler).       *)
(* SpecVerifier : the verifier (main, wait loop, SIGINT, response handler).*)
(*                                                                         *)
(* Calls into libcoap, the TSS/ESAPI, mbedTLS and the CBOR codec are       *)
(* external: each one is a step whose outcome is chosen nondeterministic-  *)
(* ally among the outcomes its caller distinguishes.  Variables prefixed   *)
(* a_ belong to the attester process, v_ to the verifier process.          *)
(***************************************************************************)
EXTENDS Integers, Sequences, FiniteSets, TLC

(* ------------------------------------------------------------------ *)
(* Bounds of the model                                                 *)
(* ------------------------------------------------------------------ *)

\* Largest nonce length a decoded request carries in the model.
MaxNonceLen == 66

\* Number of requests the attester handles in one run of the model.
MaxRequests == 2

\* Number of times libcoap calls the verifier's response handler in one run.
MaxResponses == 2

\* Largest --timeout (seconds) given on the command line of a verifier whose
\* attester answers (SpecVerifier).
ShortTimeout == 2

\* Largest --timeout (seconds) given on the command line of a verifier whose
\* attester stays silent (SpecVerifierSilent).
LongTimeout == 66

\* --pcr-selection options on one command line, "+"-separated bank tokens
\* in one expression, and comma-separated tokens in one PCR list.
MaxSelectionOptions == 2
MaxBankTokens == 2
MaxPcrTokens == 2

\* Options other than --pcr-selection on one command line.
MaxCliOptions == 3

\* The sizes, in bytes, that stand for the capacity of the attestationData
\* buffer, sizeof(TPMS_ATTEST), and for sizeof(TPMT_SIGNATURE).
AttestationDataCapacity == 4
sizeof_TPMT_SIGNATURE == 6

\* Ceiling of the time (ms) the model lets the verifier's wait loop run.
MaxTotalWait == 70000

(* ------------------------------------------------------------------ *)
(* Program constants                                                   *)
(* ------------------------------------------------------------------ *)

\* sizeof(TPMU_HA): the largest TPM digest (SHA-512), the nonce ceiling.
sizeof_TPMU_HA == 64

ESYS_TR_NONE == "ESYS_TR_NONE"
COAP_RESPONSE_CODE_CONTENT == "2.05"
COAP_RESPONSE_CODE_BAD_REQUEST == "4.00"
COAP_RESPONSE_CODE_INTERNAL_ERROR == "5.00"
EXIT_SUCCESS == "EXIT_SUCCESS"

\* attestation_response_timeout: the built-in default, in seconds.
DefaultTimeout == 30
\* COAP_IO_PROCESS_TIME_MS
COAP_IO_PROCESS_TIME_MS == 2000
\* const uint32_t nonce_len = 20 in create_attestation_request
RequestNonceLen == 20
\* uint16_t response_wait_time: the number of values of the type
UINT16_RANGE == 65536

\* CHARRA_RC values.  CHARRA_RC_SUCCESS is the integer 0: main returns it as
\* the zero exit code, and a CLI parse result of 0 stored in result is it.
CHARRA_RC_SUCCESS == "CHARRA_RC_SUCCESS"
CHARRA_RC_ERROR == "CHARRA_RC_ERROR"
CHARRA_RC_CLI_ERROR == "CHARRA_RC_CLI_ERROR"
CHARRA_RC_COAP_ERROR == "CHARRA_RC_COAP_ERROR"
CHARRA_RC_TIMEOUT == "CHARRA_RC_TIMEOUT"
CHARRA_RC_VERIFICATION_FAILED == "CHARRA_RC_VERIFICATION_FAILED"
\* The non-success code a failing callee returned (its value is the callee's).
FailureOf(callee) == "failure code of " \o callee
\* (err = f() != CHARRA_RC_SUCCESS): the integer 1 of a true comparison.
ComparisonTrue == "1"

TPM2_GENERATED_VALUE == "TPM2_GENERATED_VALUE"
EXIT_FAILURE == "EXIT_FAILURE"

\* The response code of an outgoing PDU the handler never wrote to.
CodeUnset == "unset"
\* A local variable whose initialiser was jumped over by a goto.
Indeterminate == "indeterminate"
NoReq == [nonce_len |-> -1, hello |-> FALSE]

VARIABLES
    \* ---- attester process -------------------------------------------
    a_quit,            \* static bool quit
    a_pc,              \* main: "loop_test" | "io" | "done"
    a_result,          \* main's result
    a_hpc,             \* coap_attest_handler: position, "none" outside it
    a_req,             \* the decoded request (msg_attestation_request_dto)
    a_sig_key_handle,  \* ESYS_TR sig_key_handle
    a_esys_ctx,        \* ESYS_CONTEXT* esys_ctx
    a_out_code,        \* out->code of the current invocation
    a_payload,         \* "none" | "data" | "null": what was handed to libcoap
    a_fail,            \* the step of this invocation that failed, or "none"
    a_tpm,             \* TPM/ESAPI calls issued by this invocation
    a_handled,         \* handler invocations so far
    \* ---- verifier process -------------------------------------------
    v_quit,                \* static bool quit
    v_processing_response, \* static bool processing_response
    v_attestation_rc,      \* static CHARRA_RC attestation_rc
    v_pc,                  \* main: position
    v_result,              \* main's result
    v_cfg,                 \* use_dtls_psk, use_dtls_rpk,
                           \* attestation_response_timeout, and whether the
                           \* CLI parser displayed the help message
    v_coap,                \* coap_context, coap_session, the sessions
                           \* created, and their release
    v_last_request,        \* static last_request (its nonce)
    v_sent,                \* the nonce of the request handed to coap_send_large
    v_response_wait_time,  \* uint16_t response_wait_time
    v_total_wait,          \* the sum of the values coap_io_process returned
    v_hpc,                 \* coap_attest_handler: position, "none" outside
    v_res,                 \* the decoded response (res)
    v_sig_key_handle,      \* ESYS_TR sig_key_handle
    v_ctx,                 \* esys_ctx and tcti_ctx; the PCR log buffers
                           \* of res and of last_response, their releases
    v_chk,                 \* the attestation_result_* booleans
    v_evaluated,           \* the verification steps this invocation ran
    v_hfail,               \* the step of this invocation that failed
    v_tpm,                 \* TPM/ESAPI calls issued by this invocation
    v_handled,             \* handler invocations so far
    \* ---- verifier: the --pcr-selection option and the request built ----
    c_pc,        \* "getopt" | "bank_token" | "parsed" | "requested"
    c_rc,        \* rc of charra_parse_command_line_verifier_arguments
    c_sel,       \* tpm_pcr_selection[bank][i]
    c_len,       \* tpm_pcr_selection_len[bank]
    c_opts,      \* --pcr-selection options getopt_long has returned
    c_tokens,    \* bank tokens taken from the current expression
    c_input,     \* the bank token parsed last
    c_request,   \* pcr_selections of the request built
    \* ---- verifier: the other options and main's early return --------
    c_hash,        \* signature_hash_algorithm
    c_hash_opt,    \* the --hash-algorithm value given last
    c_hash_hist,   \* the --hash-algorithm values accepted, in order
    c_pcr_logs,    \* pcr_logs[i]
    c_pcr_log_len, \* pcr_log_len
    c_log_hist,    \* the --pcr-log options accepted, in order
    c_log_opt,     \* the FORMAT of the --pcr-log option given last
    c_nopt,        \* options other than --pcr-selection returned so far
    c_opt,         \* timeout, the two file paths, and the option handled last
    c_result,      \* what main returned on a parser result other than 0
    \* ---- charra_load_external_public_key ---------------------------
    k_load         \* a call: its arguments, its position, what it returned

a_vars == << a_quit, a_pc, a_result, a_hpc, a_req, a_sig_key_handle,
             a_esys_ctx, a_out_code, a_payload, a_fail, a_tpm, a_handled >>

v_main_vars == << v_pc, v_result, v_cfg, v_coap, v_last_request, v_sent,
                  v_response_wait_time, v_total_wait >>

v_handler_vars == << v_hpc, v_res, v_sig_key_handle, v_ctx, v_chk,
                     v_evaluated, v_hfail, v_tpm, v_handled >>

v_vars == << v_quit, v_processing_response, v_attestation_rc, v_main_vars,
             v_handler_vars >>

c_sel_vars == << c_sel, c_len, c_opts, c_tokens, c_input, c_request >>

c_cfg_vars == << c_hash, c_hash_opt, c_hash_hist, c_pcr_logs, c_pcr_log_len,
                 c_log_hist, c_log_opt, c_nopt, c_opt >>

c_vars == << c_pc, c_rc, c_sel_vars, c_cfg_vars, c_result >>

k_vars == << k_load >>

vars == << a_vars, v_vars, c_vars, k_vars >>

NoTpmCalls == [init |-> 0, load |-> 0, quote |-> 0, flush |-> 0,
               finalize |-> 0, wild_finalize |-> 0]

(* ------------------------------------------------------------------ *)
(* Attester: main                                                      *)
(* ------------------------------------------------------------------ *)

AInit ==
    /\ a_quit = FALSE
    /\ a_pc = "loop_test"
    /\ a_result = EXIT_FAILURE
    /\ a_hpc = "none"
    /\ a_req = NoReq
    /\ a_sig_key_handle = ESYS_TR_NONE
    /\ a_esys_ctx = Indeterminate
    /\ a_out_code = CodeUnset
    /\ a_payload = "none"
    /\ a_fail = "none"
    /\ a_tpm = NoTpmCalls
    /\ a_handled = 0

\* handle_sigint: may run at any point of the process.
AHandleSigint ==
    /\ a_pc # "done"
    /\ ~a_quit
    /\ a_quit' = TRUE
    /\ UNCHANGED << a_pc, a_result, a_hpc, a_req, a_sig_key_handle,
                    a_esys_ctx, a_out_code, a_payload, a_fail, a_tpm,
                    a_handled >>
    /\ UNCHANGED << v_vars, c_vars, k_vars >>

\* while (!quit): the loop condition, and the exit with EXIT_SUCCESS.
AMainLoopTest ==
    /\ a_pc = "loop_test"
    /\ IF a_quit
          THEN a_pc' = "done" /\ a_result' = EXIT_SUCCESS
          ELSE a_pc' = "io" /\ UNCHANGED a_result
    /\ UNCHANGED << a_quit, a_hpc, a_req, a_sig_key_handle, a_esys_ctx,
                    a_out_code, a_payload, a_fail, a_tpm, a_handled >>
    /\ UNCHANGED << v_vars, c_vars, k_vars >>

\* coap_io_process returns: -1 ends main with EXIT_FAILURE.
AIoProcessReturn ==
    /\ a_pc = "io"
    /\ a_hpc \in {"none", "returned"}
    /\ \E io_error \in BOOLEAN :
          IF io_error
             THEN a_pc' = "done" /\ a_result' = EXIT_FAILURE
             ELSE a_pc' = "loop_test" /\ UNCHANGED a_result
    /\ UNCHANGED << a_quit, a_hpc, a_req, a_sig_key_handle, a_esys_ctx,
                    a_out_code, a_payload, a_fail, a_tpm, a_handled >>
    /\ UNCHANGED << v_vars, c_vars, k_vars >>

(* ------------------------------------------------------------------ *)
(* Attester: coap_attest_handler                                       *)
(* ------------------------------------------------------------------ *)

AHandlerFrame == << a_quit, a_pc, a_result, a_handled >>

\* goto error: the named step failed.
AGotoError(step) ==
    /\ a_hpc' = "error"
    /\ a_fail' = step

\* libcoap calls the handler for a FETCH on "attest"; locals are set up.
AHandlerEnter ==
    /\ a_pc = "io"
    /\ a_hpc \in {"none", "returned"}
    /\ a_handled < MaxRequests
    /\ a_handled' = a_handled + 1
    /\ a_hpc' = "get_data"
    /\ a_req' = NoReq
    /\ a_sig_key_handle' = ESYS_TR_NONE
    /\ a_esys_ctx' = Indeterminate
    /\ a_out_code' = CodeUnset
    /\ a_payload' = "none"
    /\ a_fail' = "none"
    /\ a_tpm' = NoTpmCalls
    /\ UNCHANGED << a_quit, a_pc, a_result >>
    /\ UNCHANGED << v_vars, c_vars, k_vars >>

\* coap_get_data_large
AGetData ==
    /\ a_hpc = "get_data"
    /\ \E ok \in BOOLEAN :
          IF ok THEN a_hpc' = "unmarshal" /\ UNCHANGED a_fail
                ELSE AGotoError("get_data")
    /\ UNCHANGED << AHandlerFrame, a_req, a_sig_key_handle, a_esys_ctx,
                    a_out_code, a_payload, a_tpm >>
    /\ UNCHANGED << v_vars, c_vars, k_vars >>

\* unmarshal_attestation_request: failure, or a decoded request.
AUnmarshal ==
    /\ a_hpc = "unmarshal"
    /\ \/ /\ AGotoError("unmarshal")
          /\ UNCHANGED a_req
       \/ \E n \in 0..MaxNonceLen, h \in BOOLEAN :
             /\ a_req' = [nonce_len |-> n, hello |-> h]
             /\ a_hpc' = "nonce"
             /\ UNCHANGED a_fail
    /\ UNCHANGED << AHandlerFrame, a_sig_key_handle, a_esys_ctx,
                    a_out_code, a_payload, a_tpm >>
    /\ UNCHANGED << v_vars, c_vars, k_vars >>

NonceTooLong_Geq(nonce_len) == nonce_len >= sizeof_TPMU_HA

\* if (req.nonce_len > sizeof(TPMU_HA))
NonceTooLong(nonce_len) == nonce_len > sizeof_TPMU_HA

\* the nonce check, then the copy into qualifying_data
ACheckNonce ==
    /\ a_hpc = "nonce"
    /\ IF NonceTooLong(a_req.nonce_len)
          THEN AGotoError("nonce")
          ELSE a_hpc' = "pcr_selection" /\ UNCHANGED a_fail
    /\ UNCHANGED << AHandlerFrame, a_req, a_sig_key_handle, a_esys_ctx,
                    a_out_code, a_payload, a_tpm >>
    /\ UNCHANGED << v_vars, c_vars, k_vars >>

\* charra_pcr_selections_to_tpm_pcr_selections
APcrSelection ==
    /\ a_hpc = "pcr_selection"
    /\ \E ok \in BOOLEAN :
          IF ok THEN a_hpc' = "esys_init" /\ UNCHANGED a_fail
                ELSE AGotoError("pcr_selection")
    /\ UNCHANGED << AHandlerFrame, a_req, a_sig_key_handle, a_esys_ctx,
                    a_out_code, a_payload, a_tpm >>
    /\ UNCHANGED << v_vars, c_vars, k_vars >>

\* ESYS_CONTEXT* esys_ctx = NULL; Esys_Initialize(&esys_ctx, NULL, NULL)
AEsysInitialize ==
    /\ a_hpc = "esys_init"
    /\ a_tpm' = [a_tpm EXCEPT !.init = @ + 1]
    /\ \E ok \in BOOLEAN :
          IF ok THEN /\ a_esys_ctx' = "CTX"
                     /\ a_hpc' = "load_key"
                     /\ UNCHANGED a_fail
                ELSE /\ a_esys_ctx' = "NULL"
                     /\ AGotoError("esys_init")
    /\ UNCHANGED << AHandlerFrame, a_req, a_sig_key_handle, a_out_code,
                    a_payload >>
    /\ UNCHANGED << v_vars, c_vars, k_vars >>

\* charra_load_tpm2_key: on failure the handle may or may not have been set.
ALoadKey ==
    /\ a_hpc = "load_key"
    /\ a_tpm' = [a_tpm EXCEPT !.load = @ + 1]
    /\ \E ok \in BOOLEAN, handle \in {ESYS_TR_NONE, "KEY"} :
          /\ ok => handle = "KEY"
          /\ a_sig_key_handle' = handle
          /\ IF ok THEN a_hpc' = "quote" /\ UNCHANGED a_fail
                   ELSE AGotoError("load_key")
    /\ UNCHANGED << AHandlerFrame, a_req, a_esys_ctx, a_out_code,
                    a_payload >>
    /\ UNCHANGED << v_vars, c_vars, k_vars >>

ATpm2Quote_ReturnOnFailure ==
    /\ a_hpc = "quote"
    /\ a_tpm' = [a_tpm EXCEPT !.quote = @ + 1]
    /\ \E ok \in BOOLEAN :
          IF ok THEN a_hpc' = "respond" /\ UNCHANGED a_fail
                ELSE a_hpc' = "returned" /\ a_fail' = "quote"
    /\ UNCHANGED << AHandlerFrame, a_req, a_sig_key_handle, a_esys_ctx,
                    a_out_code, a_payload >>
    /\ UNCHANGED << v_vars, c_vars, k_vars >>

\* tpm2_quote
ATpm2Quote ==
    /\ a_hpc = "quote"
    /\ a_tpm' = [a_tpm EXCEPT !.quote = @ + 1]
    /\ \E ok \in BOOLEAN :
          IF ok THEN a_hpc' = "respond" /\ UNCHANGED a_fail
                ELSE AGotoError("quote")
    /\ UNCHANGED << AHandlerFrame, a_req, a_sig_key_handle, a_esys_ctx,
                    a_out_code, a_payload >>
    /\ UNCHANGED << v_vars, c_vars, k_vars >>

\* marshal_attestation_response (its result is not tested), out->code =
\* 2.05, coap_add_data_large_response (its failure is logged), then the
\* fall through into the epilogue.
ARespond ==
    /\ a_hpc = "respond"
    /\ \E marshal_ok \in BOOLEAN, add_ok \in BOOLEAN :
          a_payload' = IF ~add_ok THEN "none"
                       ELSE IF marshal_ok THEN "data" ELSE "null"
    /\ a_out_code' = COAP_RESPONSE_CODE_CONTENT
    /\ a_hpc' = "error"
    /\ UNCHANGED << AHandlerFrame, a_req, a_sig_key_handle, a_esys_ctx,
                    a_fail, a_tpm >>
    /\ UNCHANGED << v_vars, c_vars, k_vars >>

\* error: flush the key handle if one is set, finalize the ESAPI context if
\* esys_ctx is not NULL, return.  On the paths that jumped over the
\* initialiser of esys_ctx the test reads an indeterminate pointer: either
\* branch may be taken.
AEpilogue ==
    /\ a_hpc = "error"
    /\ \E garbage_nonnull \in BOOLEAN :
          LET flush == IF a_sig_key_handle # ESYS_TR_NONE THEN 1 ELSE 0
              fin   == IF a_esys_ctx = "CTX" THEN 1 ELSE 0
              wild  == IF a_esys_ctx = Indeterminate /\ garbage_nonnull
                          THEN 1 ELSE 0
          IN  a_tpm' = [a_tpm EXCEPT !.flush = @ + flush,
                                     !.finalize = @ + fin,
                                     !.wild_finalize = @ + wild]
    /\ a_esys_ctx' = IF a_esys_ctx = "CTX" THEN "NULL" ELSE a_esys_ctx
    /\ a_hpc' = "returned"
    /\ UNCHANGED << AHandlerFrame, a_req, a_sig_key_handle, a_out_code,
                    a_payload, a_fail >>
    /\ UNCHANGED << v_vars, c_vars, k_vars >>

AHandler ==
    \/ AHandlerEnter
    \/ AGetData
    \/ AUnmarshal
    \/ ACheckNonce
    \/ APcrSelection
    \/ AEsysInitialize
    \/ ALoadKey
    \/ ATpm2Quote
    \/ ARespond
    \/ AEpilogue

ANext ==
    \/ AHandleSigint
    \/ AMainLoopTest
    \/ AIoProcessReturn
    \/ AHandler


(* ------------------------------------------------------------------ *)
(* Attester: properties                                                *)
(* ------------------------------------------------------------------ *)

AReturned == a_hpc = "returned"

ANoTpmCommand ==
    a_tpm.init = 0 /\ a_tpm.load = 0 /\ a_tpm.quote = 0 /\ a_tpm.flush = 0

\* C1: every invocation of the attester's handler that holds a key handle
\* (sig_key_handle != ESYS_TR_NONE) when it returns has issued exactly one
\* Esys_FlushContext for it, whichever step failed or succeeded; no
\* invocation issues more than one flush, or a flush without a handle.
C1_KeyHandleFlushedOnce ==
    /\ a_tpm.flush <= 1
    /\ a_tpm.flush = 1 => a_sig_key_handle # ESYS_TR_NONE
    /\ (AReturned /\ a_sig_key_handle # ESYS_TR_NONE) => a_tpm.flush = 1

\* C1 witness: the quote failed with the key loaded, and the handler
\* returned after flushing it.
C1_Witness ==
    /\ AReturned
    /\ a_fail = "quote"
    /\ a_sig_key_handle # ESYS_TR_NONE
    /\ a_tpm.flush = 1

\* C7: when decoding the request fails, the handler returns with the 4.00
\* Bad Request code set on the outgoing PDU and has issued no TPM command.
C7_DecodeFailureAnswers400 ==
    (AReturned /\ a_fail = "unmarshal") =>
        (a_out_code = COAP_RESPONSE_CODE_BAD_REQUEST /\ ANoTpmCommand)

\* C8: when ESAPI initialisation, the key load or the quote fails, the
\* handler returns with the 5.00 code set on the outgoing PDU, and after a
\* failed quote the key handle has been flushed.
C8_ServerFailureAnswers500 ==
    (AReturned /\ a_fail \in {"esys_init", "load_key", "quote"}) =>
        /\ a_out_code = COAP_RESPONSE_CODE_INTERNAL_ERROR
        /\ a_fail = "quote" => a_tpm.flush = 1

\* C9: the nonce check rejects a request, before ESAPI initialisation, key
\* load and quote, exactly when nonce_len exceeds sizeof(TPMU_HA): a request
\* past the check was rejected by it iff its nonce is longer than that, and
\* a quote is only ever issued for a nonce of at most sizeof(TPMU_HA) bytes.
C9_NonceCeiling ==
    /\ a_fail = "nonce" =>
          /\ a_req.nonce_len > sizeof_TPMU_HA
          /\ a_tpm.init = 0 /\ a_tpm.load = 0 /\ a_tpm.quote = 0
    /\ (a_req # NoReq /\ a_hpc # "nonce" /\ a_req.nonce_len > sizeof_TPMU_HA)
          => a_fail = "nonce"
    /\ a_tpm.quote > 0 => a_req.nonce_len <= sizeof_TPMU_HA

\* C9 witness: a nonce of exactly sizeof(TPMU_HA) bytes reached the quote.
C9_Witness ==
    /\ a_req.nonce_len = sizeof_TPMU_HA
    /\ a_tpm.quote = 1

\* C10: no quote is issued for a request whose nonce length is 0.
C10_EmptyNonceRejected ==
    a_req.nonce_len = 0 => a_tpm.quote = 0

\* C11: for a decoded request with hello = true the handler issues neither
\* the key load nor the quote.
C11_HelloProducesNoQuote ==
    a_req.hello => (a_tpm.load = 0 /\ a_tpm.quote = 0)

\* C26: the 2.05 Content code is set only on an invocation in which no
\* step failed and the response was encoded: the buffer of a failed
\* encoding is never handed to the transport under 2.05.
C26_ContentOnlyAfterEveryStep ==
    a_out_code = COAP_RESPONSE_CODE_CONTENT =>
        (a_fail = "none" /\ a_payload # "null")

\* C27: neither handler finalizes through a context pointer that this
\* invocation never initialised, and when a handler returns it has
\* finalized exactly the contexts it initialised.
C27_FinalizeOnlyOwnContext ==
    /\ a_tpm.wild_finalize = 0
    /\ v_tpm.wild = 0
    /\ AReturned => a_esys_ctx # "CTX"
    /\ v_hpc = "returned" => (v_ctx.esys # "CTX" /\ v_ctx.tcti # "CTX")

(* ------------------------------------------------------------------ *)
(* Verifier: data                                                      *)
(* ------------------------------------------------------------------ *)

\* Two nonces the random source may deliver; they differ in the last byte.
NonceA == [i \in 1..RequestNonceLen |-> 0]
NonceB == [i \in 1..RequestNonceLen |-> IF i = RequestNonceLen THEN 1 ELSE 0]
RandomNonces == {NonceA, NonceB}

\* What the qualifying data of a received quote may be: either nonce, or a
\* proper prefix of one.
QualifyingData ==
    RandomNonces \cup {SubSeq(NonceA, 1, RequestNonceLen - 1)}

\* The digests of the reference PCR file, and the digests a quote may carry.
ReferencePcrDigests == {"reference digest 1", "reference digest 2"}
QuotedPcrDigests == {"reference digest 2", "unknown digest"}

NoNonce == << >>
NoRes == [decoded |-> FALSE, magic |-> "", extraData |-> << >>,
          pcrDigest |-> "", attestation_data_len |-> 0,
          tpm2_signature_len |-> 0, pcr_log_len |-> 0]

\* TPM2B_ATTEST is a UINT16 size followed by the attestationData buffer:
\* sizeof(TPM2B_ATTEST) is the buffer's capacity plus sizeof(UINT16).
sizeof_UINT16 == 2
sizeof_TPM2B_ATTEST == AttestationDataCapacity + sizeof_UINT16

\* The attestation data lengths and signature lengths a decoded response
\* may carry: up to, and past, the sizes the handler compares them with.
AttestationDataLens ==
    {AttestationDataCapacity, sizeof_TPM2B_ATTEST, sizeof_TPM2B_ATTEST + 1}

SignatureLens == {sizeof_TPMT_SIGNATURE, sizeof_TPMT_SIGNATURE + 1}

\* pcr_log_dto pcr_logs[SUPPORTED_PCR_LOGS_COUNT]
SUPPORTED_PCR_LOGS_COUNT == 2

\* The values pcr_log_len may have after parsing: no --pcr-log option, or
\* one for each supported log.
ConfiguredPcrLogLens == {0, SUPPORTED_PCR_LOGS_COUNT}

\* The number of PCR logs a decoded response may carry: none, or one more
\* than the array pcr_logs has entries.
PcrLogLens == {0, SUPPORTED_PCR_LOGS_COUNT + 1}

\* The attestation structures (TPMS_ATTEST) a decoded response may carry.
Responses ==
    [decoded : {TRUE},
     magic : {TPM2_GENERATED_VALUE, "bogus"},
     extraData : QualifyingData,
     pcrDigest : QuotedPcrDigests,
     attestation_data_len : AttestationDataLens,
     tpm2_signature_len : SignatureLens,
     pcr_log_len : PcrLogLens]

NoChecks == [signature |-> FALSE, magic |-> FALSE, nonce |-> FALSE,
             pcrs |-> FALSE]

NoVTpmCalls == [tcti_init |-> 0, esys_init |-> 0, load |-> 0, verify |-> 0,
                flush |-> 0, finalize |-> 0, wild |-> 0]

(* ------------------------------------------------------------------ *)
(* Verifier: main                                                      *)
(* ------------------------------------------------------------------ *)

VInit ==
    /\ v_quit = FALSE
    /\ v_processing_response = FALSE
    /\ v_attestation_rc = CHARRA_RC_ERROR
    /\ v_pc = "parse_cli"
    /\ v_result = EXIT_FAILURE
    /\ v_cfg = [use_dtls_psk |-> FALSE, use_dtls_rpk |-> FALSE,
                timeout |-> DefaultTimeout, help_displayed |-> FALSE,
                pcr_log_len |-> 0]
    /\ v_coap = [context |-> FALSE, session |-> "none", sessions |-> 0,
                 pending |-> FALSE,
                 released |-> FALSE]
    /\ v_last_request = NoNonce
    /\ v_sent = NoNonce
    /\ v_response_wait_time = 0
    /\ v_total_wait = 0
    /\ v_hpc = "none"
    /\ v_res = NoRes
    /\ v_sig_key_handle = ESYS_TR_NONE
    /\ v_ctx = [esys |-> Indeterminate, tcti |-> Indeterminate,
                res |-> Indeterminate, last_response |-> "zero",
                log_frees |-> 0, wild_free |-> 0, logs_read |-> 0]
    /\ v_chk = NoChecks
    /\ v_evaluated = {}
    /\ v_hfail = "none"
    /\ v_tpm = NoVTpmCalls
    /\ v_handled = 0

VMainFrame ==
    /\ UNCHANGED << v_quit, v_processing_response, v_attestation_rc >>
    /\ UNCHANGED v_handler_vars
    /\ UNCHANGED << a_vars, c_vars, k_vars >>

\* handle_sigint: may run at any point of the process.
VHandleSigint ==
    /\ v_pc # "done"
    /\ ~v_quit
    /\ v_quit' = TRUE
    /\ UNCHANGED << v_processing_response, v_attestation_rc, v_main_vars,
                    v_handler_vars >>
    /\ UNCHANGED << a_vars, c_vars, k_vars >>

\* goto cleanup, with result as the failing step left it
VGotoCleanup == v_pc' = "cleanup"

\* result = x; goto cleanup
VFail(rc) == v_result' = rc /\ v_pc' = "cleanup"

\* charra_parse_command_line_verifier_arguments and main's test of its
\* result: 1 (help displayed) returns CHARRA_RC_SUCCESS, any other non-zero
\* value returns CHARRA_RC_CLI_ERROR, 0 goes on with result = 0.  timeouts
\* are the values attestation_response_timeout may have after parsing.
VParseCli(timeouts) ==
    /\ v_pc = "parse_cli"
    /\ \E rc \in {0, 1, -1} :
          CASE rc = 1  -> /\ v_result' = CHARRA_RC_SUCCESS
                          /\ v_pc' = "done"
                          /\ v_cfg' = [v_cfg EXCEPT !.help_displayed = TRUE]
            [] rc = -1 -> /\ v_result' = CHARRA_RC_CLI_ERROR
                          /\ v_pc' = "done"
                          /\ UNCHANGED v_cfg
            [] rc = 0  -> /\ v_result' = CHARRA_RC_SUCCESS
                          /\ v_pc' = "check_dtls"
                          /\ \E psk \in BOOLEAN, rpk \in BOOLEAN,
                                t \in timeouts,
                                logs \in ConfiguredPcrLogLens :
                                v_cfg' = [use_dtls_psk |-> psk,
                                          use_dtls_rpk |-> rpk,
                                          timeout |-> t,
                                          help_displayed |-> FALSE,
                                          pcr_log_len |-> logs]
    /\ UNCHANGED << v_coap, v_last_request, v_sent, v_response_wait_time,
                    v_total_wait >>
    /\ VMainFrame

VCheckDtls_NoConflictCheck ==
    /\ v_pc = "check_dtls"
    /\ \E dtls_supported \in BOOLEAN :
          IF v_cfg.use_dtls_psk /\ ~dtls_supported
             THEN VGotoCleanup
             ELSE v_pc' = "new_context"
    /\ UNCHANGED << v_result, v_cfg, v_coap, v_last_request, v_sent,
                    v_response_wait_time, v_total_wait >>
    /\ VMainFrame

\* if (use_dtls_psk && use_dtls_rpk) goto cleanup;
\* if (use_dtls_psk && !coap_dtls_is_supported()) goto cleanup;
VCheckDtls ==
    /\ v_pc = "check_dtls"
    /\ \E dtls_supported \in BOOLEAN :
          IF v_cfg.use_dtls_psk /\ v_cfg.use_dtls_rpk
             THEN VGotoCleanup
             ELSE IF v_cfg.use_dtls_psk /\ ~dtls_supported
                     THEN VGotoCleanup
                     ELSE v_pc' = "new_context"
    /\ UNCHANGED << v_result, v_cfg, v_coap, v_last_request, v_sent,
                    v_response_wait_time, v_total_wait >>
    /\ VMainFrame

\* charra_coap_new_context, coap_register_response_handler
VNewContext ==
    /\ v_pc = "new_context"
    /\ \E ok \in BOOLEAN :
          IF ok THEN /\ v_coap' = [v_coap EXCEPT !.context = TRUE]
                     /\ v_pc' = "new_session"
                     /\ UNCHANGED v_result
                ELSE /\ VFail(CHARRA_RC_COAP_ERROR)
                     /\ UNCHANGED v_coap
    /\ UNCHANGED << v_cfg, v_last_request, v_sent, v_response_wait_time,
                    v_total_wait >>
    /\ VMainFrame

\* the client session: DTLS-PSK, else DTLS-RPK, else UDP
VNewSession ==
    /\ v_pc = "new_session"
    /\ \E setup_ok \in BOOLEAN, session_ok \in BOOLEAN :
          IF v_cfg.use_dtls_psk
             THEN IF session_ok
                     THEN /\ v_coap' = [v_coap EXCEPT !.session = "psk",
                                                  !.sessions = @ + 1]
                          /\ v_pc' = "encode_option"
                          /\ UNCHANGED v_result
                     ELSE VFail(CHARRA_RC_ERROR) /\ UNCHANGED v_coap
             ELSE IF v_cfg.use_dtls_rpk
                     THEN IF ~setup_ok
                             THEN /\ VFail(FailureOf(
                                       "charra_coap_setup_dtls_pki_for_rpk"))
                                  /\ UNCHANGED v_coap
                             ELSE IF session_ok
                                     THEN /\ v_coap' = [v_coap EXCEPT
                                                          !.session = "rpk",
                                                          !.sessions = @ + 1]
                                          /\ v_pc' = "encode_option"
                                          /\ v_result' = CHARRA_RC_SUCCESS
                                     ELSE /\ VFail(CHARRA_RC_ERROR)
                                          /\ UNCHANGED v_coap
                     ELSE IF session_ok
                             THEN /\ v_coap' = [v_coap EXCEPT
                                                  !.session = "udp",
                                                  !.sessions = @ + 1]
                                  /\ v_pc' = "encode_option"
                                  /\ UNCHANGED v_result
                             ELSE /\ VFail(CHARRA_RC_COAP_ERROR)
                                  /\ UNCHANGED v_coap
    /\ UNCHANGED << v_cfg, v_last_request, v_sent, v_response_wait_time,
                    v_total_wait >>
    /\ VMainFrame

\* coap_encode_var_safe for the content type option
VEncodeOption ==
    /\ v_pc = "encode_option"
    /\ \E ok \in BOOLEAN :
          IF ok THEN v_pc' = "create_request" /\ UNCHANGED v_result
                ELSE VFail(CHARRA_RC_COAP_ERROR)
    /\ UNCHANGED << v_cfg, v_coap, v_last_request, v_sent,
                    v_response_wait_time, v_total_wait >>
    /\ VMainFrame

VCreateRequest_IgnoreFailure ==
    /\ v_pc = "create_request"
    /\ \/ /\ v_result' = ComparisonTrue
          /\ v_last_request' = NonceA
          /\ v_pc' = "marshal"
       \/ \E nonce \in RandomNonces :
             /\ v_result' = CHARRA_RC_SUCCESS
             /\ v_last_request' = nonce
             /\ v_pc' = "marshal"
    /\ UNCHANGED << v_cfg, v_coap, v_sent, v_response_wait_time,
                    v_total_wait >>
    /\ VMainFrame

\* create_attestation_request: on a failing random source it returns the
\* value of the comparison, 1; else the request with a fresh nonce, which
\* main stores in last_request.
VCreateRequest ==
    /\ v_pc = "create_request"
    /\ \/ /\ VFail(ComparisonTrue)
          /\ UNCHANGED v_last_request
       \/ \E nonce \in RandomNonces :
             /\ v_result' = CHARRA_RC_SUCCESS
             /\ v_last_request' = nonce
             /\ v_pc' = "marshal"
    /\ UNCHANGED << v_cfg, v_coap, v_sent, v_response_wait_time,
                    v_total_wait >>
    /\ VMainFrame

\* charra_tap_marshal_attestation_request
VMarshal ==
    /\ v_pc = "marshal"
    /\ \E ok \in BOOLEAN :
          IF ok THEN v_pc' = "options" /\ v_result' = CHARRA_RC_SUCCESS
                ELSE VFail(FailureOf("charra_tap_marshal_attestation_request"))
    /\ UNCHANGED << v_cfg, v_coap, v_last_request, v_sent,
                    v_response_wait_time, v_total_wait >>
    /\ VMainFrame

\* coap_insert_optlist for URI_PATH and for CONTENT_TYPE
VOptions ==
    /\ v_pc = "options"
    /\ \E ok \in BOOLEAN :
          IF ok THEN v_pc' = "new_request" /\ UNCHANGED v_result
                ELSE VFail(CHARRA_RC_COAP_ERROR)
    /\ UNCHANGED << v_cfg, v_coap, v_last_request, v_sent,
                    v_response_wait_time, v_total_wait >>
    /\ VMainFrame

\* charra_coap_new_request
VNewRequest ==
    /\ v_pc = "new_request"
    /\ \E ok \in BOOLEAN :
          IF ok THEN v_pc' = "send" /\ UNCHANGED v_result
                ELSE VFail(CHARRA_RC_ERROR)
    /\ UNCHANGED << v_cfg, v_coap, v_last_request, v_sent,
                    v_response_wait_time, v_total_wait >>
    /\ VMainFrame

\* coap_session_set_ack_timeout, coap_send_large of the marshaled req (the
\* request last_request was copied from); uint16_t response_wait_time = 0
VSend ==
    /\ v_pc = "send"
    /\ \E ok \in BOOLEAN :
          IF ok THEN /\ v_sent' = v_last_request
                     /\ v_response_wait_time' = 0
                     /\ v_pc' = "loop_test"
                     /\ UNCHANGED v_result
                ELSE /\ VFail(CHARRA_RC_COAP_ERROR)
                     /\ UNCHANGED << v_sent, v_response_wait_time >>
    /\ UNCHANGED << v_cfg, v_coap, v_last_request, v_total_wait >>
    /\ VMainFrame

VLoopTest_KeepResult ==
    /\ v_pc = "loop_test"
    /\ \E pending \in BOOLEAN :
          /\ v_coap' = [v_coap EXCEPT !.pending = pending]
          /\ IF ~v_processing_response /\ pending
                THEN v_pc' = "io"
                ELSE v_pc' = "cleanup"
    /\ UNCHANGED << v_result, v_cfg, v_last_request, v_sent,
                    v_response_wait_time, v_total_wait >>
    /\ VMainFrame

\* while (!processing_response && coap_io_pending(coap_context)), and after
\* the loop result = attestation_rc
VLoopTest ==
    /\ v_pc = "loop_test"
    /\ \E pending \in BOOLEAN :
          /\ v_coap' = [v_coap EXCEPT !.pending = pending]
          /\ IF ~v_processing_response /\ pending
                THEN v_pc' = "io" /\ UNCHANGED v_result
                ELSE v_pc' = "cleanup" /\ v_result' = v_attestation_rc
    /\ UNCHANGED << v_cfg, v_last_request, v_sent,
                    v_response_wait_time, v_total_wait >>
    /\ VMainFrame

\* The values coap_io_process returns when it does not fail (ms).
IoProcessTimes == {0, COAP_IO_PROCESS_TIME_MS \div 2, COAP_IO_PROCESS_TIME_MS}

\* response_wait_time += coap_io_process_time, in uint16_t
AddWaitTime(wait, ms) == (wait + ms) % UINT16_RANGE

\* if (response_wait_time >= (attestation_response_timeout * 1000))
TimedOut(wait, timeout) == wait >= timeout * 1000

\* coap_io_process returns -1, or the time it took; the timeout accounting
VIoProcessReturn ==
    /\ v_pc = "io"
    /\ v_hpc \in {"none", "returned"}
    /\ \/ /\ VFail(CHARRA_RC_COAP_ERROR)
          /\ UNCHANGED << v_response_wait_time, v_total_wait >>
       \/ \E ms \in IoProcessTimes :
             /\ v_total_wait + ms <= MaxTotalWait
             /\ v_total_wait' = v_total_wait + ms
             /\ v_response_wait_time' = AddWaitTime(v_response_wait_time, ms)
             /\ IF TimedOut(v_response_wait_time', v_cfg.timeout)
                   THEN VFail(CHARRA_RC_TIMEOUT)
                   ELSE v_pc' = "loop_test" /\ UNCHANGED v_result
    /\ UNCHANGED << v_cfg, v_coap, v_last_request, v_sent >>
    /\ VMainFrame

\* cleanup: release the session and the context, return result
VCleanup ==
    /\ v_pc = "cleanup"
    /\ v_coap' = [v_coap EXCEPT !.released = TRUE]
    /\ v_pc' = "done"
    /\ UNCHANGED << v_result, v_cfg, v_last_request, v_sent,
                    v_response_wait_time, v_total_wait >>
    /\ VMainFrame

VMain(timeouts) ==
    \/ VParseCli(timeouts)
    \/ VCheckDtls
    \/ VNewContext
    \/ VNewSession
    \/ VEncodeOption
    \/ VCreateRequest
    \/ VMarshal
    \/ VOptions
    \/ VNewRequest
    \/ VSend
    \/ VLoopTest
    \/ VIoProcessReturn
    \/ VCleanup

(* ------------------------------------------------------------------ *)
(* Verifier: coap_attest_handler (the response handler)                *)
(* ------------------------------------------------------------------ *)

VHandlerFrame ==
    /\ UNCHANGED << v_quit, v_main_vars, v_handled >>
    /\ UNCHANGED << a_vars, c_vars, k_vars >>

\* goto cleanup: the named step failed
VHGotoCleanup(step) ==
    /\ v_hpc' = "cleanup"
    /\ v_hfail' = step

\* libcoap calls the response handler from coap_io_process: the locals are
\* set up and processing_response = true.  res, esys_ctx and tcti_ctx get
\* their initialisers further down.
VHandlerEnter ==
    /\ v_pc = "io"
    /\ v_hpc \in {"none", "returned"}
    /\ v_handled < MaxResponses
    /\ v_handled' = v_handled + 1
    /\ v_processing_response' = TRUE
    /\ v_hpc' = "get_data"
    /\ v_res' = NoRes
    /\ v_sig_key_handle' = ESYS_TR_NONE
    /\ v_ctx' = [esys |-> Indeterminate, tcti |-> Indeterminate,
                 res |-> Indeterminate,
                 last_response |-> v_ctx.last_response,
                 log_frees |-> 0, wild_free |-> 0, logs_read |-> 0]
    /\ v_chk' = NoChecks
    /\ v_evaluated' = {}
    /\ v_hfail' = "none"
    /\ v_tpm' = NoVTpmCalls
    /\ UNCHANGED << v_quit, v_attestation_rc, v_main_vars >>
    /\ UNCHANGED << a_vars, c_vars, k_vars >>

\* coap_get_data_large
VGetData ==
    /\ v_hpc = "get_data"
    /\ \E ok \in BOOLEAN :
          IF ok THEN /\ v_hpc' = "unmarshal"
                     /\ UNCHANGED << v_hfail, v_attestation_rc >>
                ELSE /\ v_attestation_rc' = CHARRA_RC_ERROR
                     /\ VHGotoCleanup("get_data")
    /\ UNCHANGED << v_processing_response, v_res, v_sig_key_handle, v_ctx,
                    v_chk, v_evaluated, v_tpm >>
    /\ VHandlerFrame

\* res = {0}; attestation_rc =
\* charra_tap_unmarshal_attestation_response(...): a decoded response with
\* PCR logs owns their buffers.
VUnmarshalResponse ==
    /\ v_hpc = "unmarshal"
    /\ \/ /\ v_attestation_rc' =
                FailureOf("charra_tap_unmarshal_attestation_response")
          /\ VHGotoCleanup("unmarshal")
          /\ v_ctx' = [v_ctx EXCEPT !.res = "empty"]
          /\ UNCHANGED v_res
       \/ \E r \in Responses :
             /\ v_res' = r
             /\ v_ctx' = [v_ctx EXCEPT
                            !.res = IF r.pcr_log_len > 0 THEN "allocated"
                                                         ELSE "empty"]
             /\ v_attestation_rc' = CHARRA_RC_SUCCESS
             /\ v_hpc' = "check_lengths"
             /\ UNCHANGED v_hfail
    /\ UNCHANGED << v_processing_response, v_sig_key_handle, v_chk,
                    v_evaluated, v_tpm >>
    /\ VHandlerFrame

\* The two length checks: neither attestation_data_len >
\* sizeof(TPM2B_ATTEST) nor tpm2_signature_len > sizeof(TPMT_SIGNATURE).
LengthsAccepted(res) ==
    /\ ~(res.attestation_data_len > sizeof_TPM2B_ATTEST)
    /\ ~(res.tpm2_signature_len > sizeof_TPMT_SIGNATURE)

\* last_response = res (a copy of the structure: the same buffers), then
\* the two length checks
VCheckLengths ==
    /\ v_hpc = "check_lengths"
    /\ v_ctx' = [v_ctx EXCEPT
                   !.last_response = IF v_ctx.res = "allocated"
                                        THEN "live" ELSE "zero"]
    /\ IF LengthsAccepted(v_res)
          THEN /\ v_hpc' = "tcti_init"
               /\ UNCHANGED << v_hfail, v_attestation_rc >>
          ELSE /\ v_attestation_rc' = CHARRA_RC_ERROR
               /\ VHGotoCleanup("check_lengths")
    /\ UNCHANGED << v_processing_response, v_res, v_sig_key_handle,
                    v_chk, v_evaluated, v_tpm >>
    /\ VHandlerFrame

\* esys_ctx = NULL; tcti_ctx = NULL; Tss2_TctiLdr_Initialize
VTctiInitialize ==
    /\ v_hpc = "tcti_init"
    /\ v_tpm' = [v_tpm EXCEPT !.tcti_init = @ + 1]
    /\ \E ok \in BOOLEAN :
          IF ok THEN /\ v_ctx' = [v_ctx EXCEPT !.esys = "NULL",
                                                !.tcti = "CTX"]
                     /\ v_hpc' = "esys_init"
                     /\ UNCHANGED << v_hfail, v_attestation_rc >>
                ELSE /\ v_ctx' = [v_ctx EXCEPT !.esys = "NULL",
                                                !.tcti = "NULL"]
                     /\ v_attestation_rc' = CHARRA_RC_ERROR
                     /\ VHGotoCleanup("tcti_init")
    /\ UNCHANGED << v_processing_response, v_res, v_sig_key_handle, v_chk,
                    v_evaluated >>
    /\ VHandlerFrame

\* Esys_Initialize
VEsysInitialize ==
    /\ v_hpc = "esys_init"
    /\ v_tpm' = [v_tpm EXCEPT !.esys_init = @ + 1]
    /\ \E ok \in BOOLEAN :
          IF ok THEN /\ v_ctx' = [v_ctx EXCEPT !.esys = "CTX"]
                     /\ v_hpc' = "load_key"
                     /\ UNCHANGED << v_hfail, v_attestation_rc >>
                ELSE /\ UNCHANGED v_ctx
                     /\ v_attestation_rc' = CHARRA_RC_ERROR
                     /\ VHGotoCleanup("esys_init")
    /\ UNCHANGED << v_processing_response, v_res, v_sig_key_handle, v_chk,
                    v_evaluated >>
    /\ VHandlerFrame

\* charra_load_external_public_key: what it returns and whether it issued
\* Esys_LoadExternal, from whether the path is set, the file reads and the
\* TPM loads the key.
charra_load_external_public_key(path_set, file_ok, tpm_ok) ==
    IF ~path_set THEN [rc |-> CHARRA_RC_ERROR, tpm_called |-> FALSE,
                       handle |-> ESYS_TR_NONE]
    ELSE IF ~file_ok THEN [rc |-> CHARRA_RC_ERROR, tpm_called |-> FALSE,
                           handle |-> ESYS_TR_NONE]
    ELSE IF ~tpm_ok THEN [rc |-> CHARRA_RC_ERROR, tpm_called |-> TRUE,
                          handle |-> ESYS_TR_NONE]
    ELSE [rc |-> CHARRA_RC_SUCCESS, tpm_called |-> TRUE, handle |-> "KEY"]

\* attestation_rc = charra_load_external_public_key(...); the path is the
\* one the CLI required.
VLoadKey ==
    /\ v_hpc = "load_key"
    /\ \E file_ok \in BOOLEAN, tpm_ok \in BOOLEAN :
          LET r == charra_load_external_public_key(TRUE, file_ok, tpm_ok)
          IN  /\ v_attestation_rc' = r.rc
              /\ v_sig_key_handle' = r.handle
              /\ v_tpm' = [v_tpm EXCEPT
                             !.load = @ + (IF r.tpm_called THEN 1 ELSE 0)]
              /\ IF r.rc # CHARRA_RC_SUCCESS
                    THEN VHGotoCleanup("load_key")
                    ELSE v_hpc' = "verify_tpm" /\ UNCHANGED v_hfail
    /\ UNCHANGED << v_processing_response, v_res, v_ctx, v_chk,
                    v_evaluated >>
    /\ VHandlerFrame

\* attestation_rc = charra_verify_tpm2_quote_signature_with_tpm(...)
VVerifySignatureTpm ==
    /\ v_hpc = "verify_tpm"
    /\ v_tpm' = [v_tpm EXCEPT !.verify = @ + 1]
    /\ v_evaluated' = v_evaluated \cup {"signature"}
    /\ \E valid \in BOOLEAN :
          /\ v_attestation_rc' =
                IF valid THEN CHARRA_RC_SUCCESS
                ELSE FailureOf("charra_verify_tpm2_quote_signature_with_tpm")
          /\ v_chk' = [v_chk EXCEPT !.signature = valid]
    /\ v_hpc' = "convert_key"
    /\ UNCHANGED << v_processing_response, v_res, v_sig_key_handle, v_ctx,
                    v_hfail >>
    /\ VHandlerFrame

VConvertKey_ReturnOnFailure ==
    /\ v_hpc = "convert_key"
    /\ \E ok \in BOOLEAN :
          IF ok THEN /\ v_attestation_rc' = CHARRA_RC_SUCCESS
                     /\ v_hpc' = "verify_mbedtls"
                     /\ UNCHANGED v_hfail
                ELSE /\ v_attestation_rc' = FailureOf(
                           "charra_crypto_tpm_pub_key_to_mbedtls_pub_key")
                     /\ v_hpc' = "returned"
                     /\ v_hfail' = "convert_key"
    /\ UNCHANGED << v_processing_response, v_res, v_sig_key_handle, v_ctx,
                    v_chk, v_evaluated, v_tpm >>
    /\ VHandlerFrame

\* attestation_rc = charra_crypto_tpm_pub_key_to_mbedtls_pub_key(...)
VConvertKey ==
    /\ v_hpc = "convert_key"
    /\ \E ok \in BOOLEAN :
          IF ok THEN /\ v_attestation_rc' = CHARRA_RC_SUCCESS
                     /\ v_hpc' = "verify_mbedtls"
                     /\ UNCHANGED v_hfail
                ELSE /\ v_attestation_rc' = FailureOf(
                           "charra_crypto_tpm_pub_key_to_mbedtls_pub_key")
                     /\ VHGotoCleanup("convert_key")
    /\ UNCHANGED << v_processing_response, v_res, v_sig_key_handle, v_ctx,
                    v_chk, v_evaluated, v_tpm >>
    /\ VHandlerFrame

\* attestation_rc = charra_crypto_rsa_verify_signature(...)
VVerifySignatureMbedtls ==
    /\ v_hpc = "verify_mbedtls"
    /\ v_evaluated' = v_evaluated \cup {"sw_signature"}
    /\ \E valid \in BOOLEAN :
          v_attestation_rc' =
             IF valid THEN CHARRA_RC_SUCCESS
             ELSE FailureOf("charra_crypto_rsa_verify_signature")
    /\ v_hpc' = "unmarshal_quote"
    /\ UNCHANGED << v_processing_response, v_res, v_sig_key_handle, v_ctx,
                    v_chk, v_hfail, v_tpm >>
    /\ VHandlerFrame

\* attestation_rc = charra_unmarshal_tpm2_quote(...)
VUnmarshalQuote ==
    /\ v_hpc = "unmarshal_quote"
    /\ \E ok \in BOOLEAN :
          IF ok THEN /\ v_attestation_rc' = CHARRA_RC_SUCCESS
                     /\ v_hpc' = "verify_magic"
                     /\ UNCHANGED v_hfail
                ELSE /\ v_attestation_rc' =
                           FailureOf("charra_unmarshal_tpm2_quote")
                     /\ VHGotoCleanup("unmarshal_quote")
    /\ UNCHANGED << v_processing_response, v_res, v_sig_key_handle, v_ctx,
                    v_chk, v_evaluated, v_tpm >>
    /\ VHandlerFrame

\* charra_verify_tpm2_magic
charra_verify_tpm2_magic(attest) == attest.magic = TPM2_GENERATED_VALUE

\* charra_verify_tpm2_quote_qualifying_data: same length, same bytes
charra_verify_tpm2_quote_qualifying_data(nonce_len, nonce, attest) ==
    /\ Len(attest.extraData) = nonce_len
    /\ \A i \in 1..nonce_len : attest.extraData[i] = nonce[i]

\* charra_check_pcr_digest_against_reference: the quoted digest is one of
\* the reference digests
charra_check_pcr_digest_against_reference(attest) ==
    attest.pcrDigest \in ReferencePcrDigests

\* attestation_result_tpm2_magic = charra_verify_tpm2_magic(&attest_struct)
VVerifyMagic ==
    /\ v_hpc = "verify_magic"
    /\ v_chk' = [v_chk EXCEPT !.magic = charra_verify_tpm2_magic(v_res)]
    /\ v_evaluated' = v_evaluated \cup {"magic"}
    /\ v_hpc' = "verify_nonce"
    /\ UNCHANGED << v_processing_response, v_attestation_rc, v_res,
                    v_sig_key_handle, v_ctx, v_hfail, v_tpm >>
    /\ VHandlerFrame

\* charra_verify_tpm2_quote_qualifying_data(last_request.nonce_len,
\* last_request.nonce, &attest_struct)
VerifyNonceCall ==
    charra_verify_tpm2_quote_qualifying_data(
        Len(v_last_request), v_last_request, v_res)

VVerifyNonce ==
    /\ v_hpc = "verify_nonce"
    /\ v_chk' = [v_chk EXCEPT !.nonce = VerifyNonceCall]
    /\ v_evaluated' = v_evaluated \cup {"nonce"}
    /\ v_hpc' = "verify_pcrs"
    /\ UNCHANGED << v_processing_response, v_attestation_rc, v_res,
                    v_sig_key_handle, v_ctx, v_hfail, v_tpm >>
    /\ VHandlerFrame

\* pcr_check = charra_check_pcr_digest_against_reference(...)
VVerifyPcrs ==
    /\ v_hpc = "verify_pcrs"
    /\ v_chk' = [v_chk EXCEPT
                   !.pcrs = charra_check_pcr_digest_against_reference(v_res)]
    /\ v_evaluated' = v_evaluated \cup {"pcrs"}
    /\ v_hpc' = "pcr_logs"
    /\ UNCHANGED << v_processing_response, v_attestation_rc, v_res,
                    v_sig_key_handle, v_ctx, v_hfail, v_tpm >>
    /\ VHandlerFrame

\* for (i = 0; i < res.pcr_log_len; i++) the log line reads
\* pcr_logs[i].identifier and res.pcr_logs[i].content_len: logs_read is the
\* number of entries of the configured array pcr_logs the loop has read.
VCheckPcrLogs ==
    /\ v_hpc = "pcr_logs"
    /\ v_ctx' = [v_ctx EXCEPT !.logs_read = v_res.pcr_log_len]
    /\ v_hpc' = "verdict"
    /\ UNCHANGED << v_processing_response, v_attestation_rc, v_res,
                    v_sig_key_handle, v_chk, v_evaluated, v_hfail, v_tpm >>
    /\ VHandlerFrame

AttestationResult_NoNonce(chk) == chk.signature /\ chk.pcrs

\* bool attestation_result = attestation_result_signature &&
\*     attestation_result_nonce && attestation_result_pcrs;
AttestationResult(chk) == chk.signature /\ chk.nonce /\ chk.pcrs

\* if (attestation_result) attestation_rc = CHARRA_RC_SUCCESS;
\* else attestation_rc = CHARRA_RC_VERIFICATION_FAILED;
VerdictCode(chk) ==
    IF AttestationResult(chk) THEN CHARRA_RC_SUCCESS
                              ELSE CHARRA_RC_VERIFICATION_FAILED

\* the verdict: attestation_rc from attestation_result
VVerdict ==
    /\ v_hpc = "verdict"
    /\ v_attestation_rc' = VerdictCode(v_chk)
    /\ v_hpc' = "cleanup"
    /\ UNCHANGED << v_processing_response, v_res, v_sig_key_handle, v_ctx,
                    v_chk, v_evaluated, v_hfail, v_tpm >>
    /\ VHandlerFrame

VHandlerCleanup_NoReset ==
    /\ v_hpc = "cleanup"
    /\ \E garbage_nonnull \in BOOLEAN, garbage_logs \in BOOLEAN :
          LET flush == IF v_sig_key_handle # ESYS_TR_NONE THEN 1 ELSE 0
              live  == Cardinality({c \in {"esys", "tcti"} :
                                       v_ctx[c] = "CTX"})
              wild  == IF v_ctx.esys = Indeterminate /\ garbage_nonnull
                          THEN 1 ELSE 0
              frees == IF v_ctx.res = "allocated" THEN 1 ELSE 0
              wfree == IF v_ctx.res = Indeterminate /\ garbage_logs
                          THEN 1 ELSE 0
          IN  /\ v_tpm' = [v_tpm EXCEPT !.flush = @ + flush,
                                        !.finalize = @ + live,
                                        !.wild = @ + wild]
              /\ v_ctx' =
                    [v_ctx EXCEPT
                       !.esys = IF @ = "CTX" THEN "NULL" ELSE @,
                       !.tcti = IF @ = "CTX" THEN "NULL" ELSE @,
                       !.res = IF @ = "allocated" THEN "released" ELSE @,
                       !.last_response =
                          IF @ = "live" /\ v_ctx.res = "allocated"
                             THEN "dangling" ELSE @,
                       !.log_frees = @ + frees,
                       !.wild_free = @ + wfree]
    /\ UNCHANGED v_processing_response
    /\ v_hpc' = "returned"
    /\ UNCHANGED << v_attestation_rc, v_res, v_sig_key_handle, v_chk,
                    v_evaluated, v_hfail >>
    /\ VHandlerFrame

\* cleanup: free the PCR logs of res (last_response keeps its copy of the
\* pointers), flush the key handle if one is set, finalize esys_ctx and
\* tcti_ctx if not NULL, processing_response = false.  On the paths that
\* jumped over the initialisers of res, esys_ctx and tcti_ctx the epilogue
\* reads indeterminate values: either branch may be taken.
VHandlerCleanup ==
    /\ v_hpc = "cleanup"
    /\ \E garbage_nonnull \in BOOLEAN, garbage_logs \in BOOLEAN :
          LET flush == IF v_sig_key_handle # ESYS_TR_NONE THEN 1 ELSE 0
              live  == Cardinality({c \in {"esys", "tcti"} :
                                       v_ctx[c] = "CTX"})
              wild  == IF v_ctx.esys = Indeterminate /\ garbage_nonnull
                          THEN 1 ELSE 0
              frees == IF v_ctx.res = "allocated" THEN 1 ELSE 0
              wfree == IF v_ctx.res = Indeterminate /\ garbage_logs
                          THEN 1 ELSE 0
          IN  /\ v_tpm' = [v_tpm EXCEPT !.flush = @ + flush,
                                        !.finalize = @ + live,
                                        !.wild = @ + wild]
              /\ v_ctx' =
                    [v_ctx EXCEPT
                       !.esys = IF @ = "CTX" THEN "NULL" ELSE @,
                       !.tcti = IF @ = "CTX" THEN "NULL" ELSE @,
                       !.res = IF @ = "allocated" THEN "released" ELSE @,
                       !.last_response =
                          IF @ = "live" /\ v_ctx.res = "allocated"
                             THEN "dangling" ELSE @,
                       !.log_frees = @ + frees,
                       !.wild_free = @ + wfree]
    /\ v_processing_response' = FALSE
    /\ v_hpc' = "returned"
    /\ UNCHANGED << v_attestation_rc, v_res, v_sig_key_handle, v_chk,
                    v_evaluated, v_hfail >>
    /\ VHandlerFrame

VHandler ==
    \/ VHandlerEnter
    \/ VGetData
    \/ VUnmarshalResponse
    \/ VCheckLengths
    \/ VTctiInitialize
    \/ VEsysInitialize
    \/ VLoadKey
    \/ VVerifySignatureTpm
    \/ VConvertKey
    \/ VVerifySignatureMbedtls
    \/ VUnmarshalQuote
    \/ VVerifyMagic
    \/ VVerifyNonce
    \/ VVerifyPcrs
    \/ VCheckPcrLogs
    \/ VVerdict
    \/ VHandlerCleanup

\* The verifier whose attester may answer.
VNext ==
    \/ VHandleSigint
    \/ VMain(1..ShortTimeout)
    \/ VHandler

\* The verifier whose attester stays silent: no response is ever handled.
VSilentNext ==
    VMain({1, DefaultTimeout, LongTimeout - 1, LongTimeout})

(* ------------------------------------------------------------------ *)
(* Verifier: properties                                                *)
(* ------------------------------------------------------------------ *)

VDone == v_pc = "done"

\* The handler is past its verdict step.
VPastVerdict ==
    /\ v_hpc \in {"cleanup", "returned"}
    /\ v_hfail = "none"
    /\ "pcrs" \in v_evaluated

\* C2: past the verdict step, attestation_rc is CHARRA_RC_SUCCESS iff the
\* TPM-path signature check, the TPM magic check, the nonce check and the
\* PCR digest check are all true.
C2_VerdictIsConjunctionOfFourChecks ==
    VPastVerdict =>
        ((v_attestation_rc = CHARRA_RC_SUCCESS) <=>
            (v_chk.signature /\ v_chk.magic /\ v_chk.nonce /\ v_chk.pcrs))

C4_ZeroOnlyAfterSuccessfulVerdict ==
    (VDone /\ v_result = CHARRA_RC_SUCCESS) =>
        \/ v_cfg.help_displayed
        \/ /\ v_handled > 0
           /\ VPastVerdict
           /\ v_attestation_rc = CHARRA_RC_SUCCESS

\* C5: with no response handled, once the values coap_io_process returned
\* sum to attestation_response_timeout * 1000 ms the wait loop has been
\* left with CHARRA_RC_TIMEOUT.
C5_TimeoutOnceSumReachesThreshold ==
    v_total_wait >= v_cfg.timeout * 1000 =>
        (v_pc \in {"cleanup", "done"} /\ v_result = CHARRA_RC_TIMEOUT)

\* C6: on both endpoints, with quit set the loop test does not start a
\* further coap_io_process call.
C6_QuitEndsBothLoops ==
    [][ /\ (a_quit /\ a_pc = "loop_test") => a_pc' # "io"
        /\ (v_quit /\ v_pc = "loop_test") => v_pc' # "io" ]_vars

\* C12: for one sent request at most one response is validated: a second
\* invocation of the response handler evaluates no verification predicate,
\* issues no TPM command and leaves attestation_rc as it was.
C12_SecondResponseNotValidated ==
    [][ v_handled >= 2 =>
          /\ v_evaluated' = {}
          /\ v_tpm'.verify = 0
          /\ v_attestation_rc' = v_attestation_rc ]_vars

\* The sets of results the four verification predicates may have.
CheckOutcomes ==
    [signature : BOOLEAN, magic : BOOLEAN, nonce : BOOLEAN, pcrs : BOOLEAN]

\* The predicates a set of results fails.
FailingPredicates(chk) ==
    { f \in {"signature", "magic", "nonce", "pcrs"} : ~chk[f] }

\* C17: the exit code tells the failing verification predicates apart: a
\* run that ends after a verdict with some predicate failed does not end
\* with the code the verdict gives to a different, non-empty set of failed
\* predicates.
C17_ExitCodeTellsPredicatesApart ==
    (VDone /\ VPastVerdict /\ v_result = v_attestation_rc
        /\ FailingPredicates(v_chk) # {}) =>
        \A other \in CheckOutcomes :
            (FailingPredicates(other) # {} /\
             FailingPredicates(other) # FailingPredicates(v_chk))
                => VerdictCode(other) # v_result

\* C18: when the handler returns after the TPM-path signature check, with
\* no failure other than in the software signature path: if the TPM-path
\* signature check passed, the quote's qualifying data is the nonce and its
\* PCR digest is a reference digest, attestation_rc is CHARRA_RC_SUCCESS;
\* and if the TPM-path signature check failed it is not.
C18_SoftwarePathIsAdvisory ==
    (v_hpc = "returned" /\ "signature" \in v_evaluated
        /\ v_hfail \in {"none", "convert_key"}) =>
        /\ (v_chk.signature /\ VerifyNonceCall
               /\ charra_check_pcr_digest_against_reference(v_res))
              => v_attestation_rc = CHARRA_RC_SUCCESS
        /\ ~v_chk.signature => v_attestation_rc # CHARRA_RC_SUCCESS

\* The five verification predicates of the response handler.
AllPredicates == {"signature", "sw_signature", "magic", "nonce", "pcrs"}

\* C19: an invocation that loaded the external key has evaluated every
\* verification predicate when it forms its verdict, and when it returns.
C19_EveryPredicateEvaluated ==
    /\ v_hpc = "verdict" => v_evaluated = AllPredicates
    /\ (v_hpc = "returned" /\ v_sig_key_handle # ESYS_TR_NONE)
          => v_evaluated = AllPredicates

\* C20: an invocation of the response handler that holds a key handle when
\* it returns has issued exactly one Esys_FlushContext for it, whichever
\* step failed; none issues more than one flush or a flush without handle.
C20_ExternalKeyHandleFlushed ==
    /\ v_tpm.flush <= 1
    /\ v_tpm.flush = 1 => v_sig_key_handle # ESYS_TR_NONE
    /\ (v_hpc = "returned" /\ v_sig_key_handle # ESYS_TR_NONE)
          => v_tpm.flush = 1

\* C20 witness: the key conversion failed after a failed TPM signature
\* check, and the handler returned with the handle flushed.
C20_Witness ==
    /\ v_hpc = "returned"
    /\ v_hfail = "convert_key"
    /\ ~v_chk.signature
    /\ v_sig_key_handle # ESYS_TR_NONE
    /\ v_tpm.flush = 1

\* C23: an invocation whose response fails to decode issues no TCTI/ESAPI
\* initialisation, no key load and no signature check; once it has
\* returned no further response is processed, and main ends with the
\* decode failure code.
C23_DecodeFailureEndsRun ==
    [][ /\ v_hfail' = "unmarshal" =>
              (v_tpm'.tcti_init = 0 /\ v_tpm'.esys_init = 0
                 /\ v_tpm'.load = 0 /\ v_tpm'.verify = 0)
        /\ (v_hfail = "unmarshal" /\ v_hpc = "returned") =>
              /\ v_hfail' = "unmarshal"
              /\ v_pc' = "done" => v_result' = FailureOf(
                     "charra_tap_unmarshal_attestation_response") ]_vars

\* C24: the request sent carries one of the random source's nonces, of
\* length 20; after a failure of the random source (main's result is the
\* value create_attestation_request returned for it) last_request was not
\* written, nothing was marshaled or sent, and main is on its way out with
\* a code other than success.
C24_NonceFromRandomSource ==
    /\ v_sent # NoNonce =>
          (Len(v_sent) = RequestNonceLen /\ v_sent \in RandomNonces)
    /\ v_result = ComparisonTrue =>
          /\ v_last_request = NoNonce
          /\ v_sent = NoNonce
          /\ v_pc \in {"cleanup", "done"}
          /\ v_result # CHARRA_RC_SUCCESS

\* C24 witness: the random source failed and main returned.
C24_Witness ==
    /\ VDone
    /\ v_result = ComparisonTrue
    /\ v_last_request = NoNonce

\* The security mode the flags select.
ModeOfFlags ==
    IF v_cfg.use_dtls_psk THEN "psk"
    ELSE IF v_cfg.use_dtls_rpk THEN "rpk" ELSE "udp"

\* C25: at most one session is created per run, in the mode the flags
\* select; with DTLS-PSK and DTLS-RPK both enabled no context and no
\* session is created and no request is sent.
C25_OneSessionInOneMode ==
    /\ v_coap.sessions <= 1
    /\ (v_coap.sessions = 1) <=> (v_coap.session # "none")
    /\ v_coap.session # "none" => v_coap.session = ModeOfFlags
    /\ (v_cfg.use_dtls_psk /\ v_cfg.use_dtls_rpk) =>
          /\ ~v_coap.context
          /\ v_coap.session = "none"
          /\ v_sent = NoNonce

\* C25 witness: both modes were enabled and main returned without a
\* context.
C25_Witness ==
    /\ VDone
    /\ v_cfg.use_dtls_psk /\ v_cfg.use_dtls_rpk
    /\ ~v_coap.context
    /\ v_coap.released

\* C28: the PCR log buffers of a decoded response are released exactly once
\* by the time the handler returns, nothing is released through a response
\* structure that was never initialised, and after the return last_response
\* does not refer to released buffers.
C28_PcrLogsReleasedOnce ==
    /\ v_ctx.log_frees <= 1
    /\ v_ctx.wild_free = 0
    /\ v_hpc = "returned" =>
          /\ v_ctx.res # "allocated"
          /\ v_ctx.res = "released" => v_ctx.log_frees = 1
          /\ v_ctx.last_response # "dangling"

\* C29: a response past the length checks has an attestation data length
\* within the capacity of attest.attestationData and a signature length
\* within sizeof(TPMT_SIGNATURE), and a response that is not was rejected
\* before any TPM operation.
C29_CopiesWithinCapacity ==
    /\ (v_res.decoded /\ v_hpc \notin {"check_lengths"}
          /\ v_hfail # "check_lengths") =>
          /\ v_res.attestation_data_len <= AttestationDataCapacity
          /\ v_res.tpm2_signature_len <= sizeof_TPMT_SIGNATURE
    /\ v_hfail = "check_lengths" =>
          (v_tpm.tcti_init = 0 /\ v_tpm.esys_init = 0 /\ v_tpm.load = 0
             /\ v_tpm.verify = 0)

\* C30: when main has returned after an invocation of the handler formed a
\* success verdict, main's result is not CHARRA_RC_TIMEOUT.
C30_TimeoutNeverReplacesSuccess ==
    (VDone /\ VPastVerdict /\ v_hpc = "returned"
        /\ v_attestation_rc = CHARRA_RC_SUCCESS) =>
        v_result # CHARRA_RC_TIMEOUT

\* C31: processing_response is false whenever control is in main and not
\* inside the response handler, and a normal exit from the wait loop (the
\* loop condition found false) happens only when coap_io_pending reported
\* no pending I/O.
C31_FlagFalseInMainLoop ==
    /\ [](v_hpc \in {"none", "returned"} => ~v_processing_response)
    /\ [][(v_pc = "loop_test" /\ v_pc' = "cleanup") => ~v_coap'.pending]_vars

\* C31 witness: the handler has run and returned, and main is back at the
\* loop condition with I/O having been pending.
C31_Witness ==
    /\ v_pc = "loop_test"
    /\ v_hpc = "returned"
    /\ v_handled > 0
    /\ v_coap.pending
    /\ ~v_processing_response

\* The wait loop was left through its condition: the request was sent and
\* the last coap_io_pending reported nothing pending.
VNormalLoopExit ==
    /\ v_pc \in {"cleanup", "done"}
    /\ v_sent # NoNonce
    /\ ~v_coap.pending

\* C32: when the wait loop exits normally without the handler ever having
\* been invoked, main returns CHARRA_RC_ERROR.
C32_NoResponseIsError ==
    (VNormalLoopExit /\ v_handled = 0) => v_result = CHARRA_RC_ERROR

\* C32 witness: main returned after a normal exit of the loop and the
\* handler never ran.
C32_Witness ==
    /\ VDone
    /\ VNormalLoopExit
    /\ v_handled = 0
    /\ v_attestation_rc = CHARRA_RC_ERROR

\* C38: the loop that reports the received PCR logs reads the configured
\* array pcr_logs only at indices below SUPPORTED_PCR_LOGS_COUNT and below
\* the number of configured log requests.
C38_PcrLogReadsWithinConfigured ==
    /\ v_ctx.logs_read <= SUPPORTED_PCR_LOGS_COUNT
    /\ v_ctx.logs_read <= v_cfg.pcr_log_len

(* ------------------------------------------------------------------ *)
(* Verifier: the --pcr-selection option (cli_util_verifier.c) and the  *)
(* PCR selections of the request (create_attestation_request)          *)
(* ------------------------------------------------------------------ *)

\* tpm_pcr_selection[TPM2_PCR_BANK_COUNT][TPM2_MAX_PCRS]: the banks sha1,
\* sha256, sha384, sha512 are rows 0..3; TPM2_MAX_PCRS is the value of
\* tss2_tpm2_types.h.
TPM2_PCR_BANK_COUNT == 4
TPM2_MAX_PCRS == 32

\* The highest PCR index of the specification's range [0, 23].
LastPcrIndex == 23

Banks == 0..(TPM2_PCR_BANK_COUNT - 1)

\* A row of TPM2_MAX_PCRS zero bytes.
ZeroBank == [i \in 1..TPM2_MAX_PCRS |-> 0]

\* The static initialiser of tpm_pcr_selection and tpm_pcr_selection_len:
\* sha256 with PCRs 0..7 and 10, the other banks empty.
StaticPcrSelection ==
    [b \in Banks |->
       IF b = 1
          THEN [i \in 1..TPM2_MAX_PCRS |->
                  IF i <= 8 THEN i - 1 ELSE IF i = 9 THEN 10 ELSE 0]
          ELSE ZeroBank]

StaticPcrSelectionLen == [b \in Banks |-> IF b = 1 THEN 9 ELSE 0]

\* charra_cli_verifier_parse_pcr_bank_to_index; -1 for any other name
charra_cli_verifier_parse_pcr_bank_to_index(pcr_bank) ==
    CASE pcr_bank = "sha1"   -> 0
      [] pcr_bank = "sha256" -> 1
      [] pcr_bank = "sha384" -> 2
      [] pcr_bank = "sha512" -> 3
      [] OTHER               -> -1

\* A token of a PCR list is a string of characters: the decimal digits are
\* 0..9, NonDigit stands for any other character.
NonDigit == 10

RECURSIVE DecimalValue(_)
DecimalValue(token) ==
    IF token = << >> THEN 0
    ELSE 10 * DecimalValue(SubSeq(token, 1, Len(token) - 1))
            + token[Len(token)]

\* charra_cli_util_common_parse_option_as_ulong(token, 10, &value): 0 and
\* the value of a decimal numeral, -1 for anything else.
charra_cli_util_common_parse_option_as_ulong(token) ==
    IF token # << >> /\ \A i \in 1..Len(token) : token[i] # NonDigit
       THEN [rc |-> 0, value |-> DecimalValue(token)]
       ELSE [rc |-> -1, value |-> 0]

\* The while loop of charra_cli_verifier_parse_pcr_bank over the tokens of
\* the list, from token k on: the hash set it fills, or rc = -1 at the first
\* token that does not parse or is >= TPM2_MAX_PCRS.
RECURSIVE FillHashSet(_, _, _)
FillHashSet(tokens, k, hash_set) ==
    IF k > Len(tokens) THEN [rc |-> 0, hash_set |-> hash_set]
    ELSE LET p == charra_cli_util_common_parse_option_as_ulong(tokens[k])
         IN  IF p.rc # 0 THEN [rc |-> -1, hash_set |-> hash_set]
             ELSE IF p.value >= TPM2_MAX_PCRS
                     THEN [rc |-> -1, hash_set |-> hash_set]
                     ELSE FillHashSet(tokens, k + 1,
                                      hash_set \cup {p.value})

\* The for loop that adds the hash set's values, in ascending order of i,
\* into the bank: from index i on, with len entries written so far.
RECURSIVE AddSorted(_, _, _, _)
AddSorted(hash_set, i, bank, len) ==
    IF i >= TPM2_MAX_PCRS THEN [bank |-> bank, len |-> len]
    ELSE IF i \notin hash_set
            THEN AddSorted(hash_set, i + 1, bank, len)
            ELSE AddSorted(hash_set, i + 1,
                           [bank EXCEPT ![len + 1] = i], len + 1)

\* charra_cli_verifier_parse_pcr_bank: "all" stores true (1) in every entry
\* and sets the length to TPM2_MAX_PCRS; a list goes through the hash set.
\* On failure the bank and its length are as they were.
charra_cli_verifier_parse_pcr_bank(bank, len, pcr_list) ==
    IF pcr_list.all
       THEN [rc |-> 0, bank |-> [i \in 1..TPM2_MAX_PCRS |-> 1],
             len |-> TPM2_MAX_PCRS]
       ELSE LET h == FillHashSet(pcr_list.tokens, 1, {})
            IN  IF h.rc # 0
                   THEN [rc |-> -1, bank |-> bank, len |-> len]
                   ELSE LET s == AddSorted(h.hash_set, 0, bank, 0)
                        IN  [rc |-> 0, bank |-> s.bank, len |-> s.len]

\* The tokens a PCR list may hold: 0, 7, 23, 24, 31, 32 and a non-number.
PcrTokens ==
    { << 0 >>, << 7 >>, << 2, 3 >>, << 2, 4 >>, << 3, 1 >>, << 3, 2 >>,
      << NonDigit >> }

RECURSIVE TokenLists(_)
TokenLists(n) ==
    IF n = 0 THEN { << >> }
    ELSE LET shorter == TokenLists(n - 1)
         IN  shorter \cup
             { Append(l, t) : l \in { x \in shorter : Len(x) = n - 1 },
                              t \in PcrTokens }

\* The PCR lists of a bank token: the keyword "all", or up to MaxPcrTokens
\* comma-separated tokens (none: "bank" or "bank:").
PcrLists ==
    { [all |-> TRUE, tokens |-> << >>] } \cup
    { [all |-> FALSE, tokens |-> l] : l \in TokenLists(MaxPcrTokens) }

\* The bank tokens of an expression "bank1:list1+bank2:list2": an empty bank
\* token has no name.
BankNames == {"sha1", "sha256", "sha384", "sha512", "md5", ""}

(* ------------------------------------------------------------------ *)
(* Verifier: the --timeout, --attestation-public-key and --pcr-file    *)
(* options and the required-options check                              *)
(* ------------------------------------------------------------------ *)

\* No option of the kind was given yet.
NoOption == "none"

\* A NULL char*.
NullPath == "NULL"

\* The files charra_io_file_exists finds.
ExistingFiles == {"ref.yaml", "ref2.yaml", "key.pem", "key2.pem"}

\* The arguments of --timeout: 0, 1, 70, 65535, 65536, 65537, a word, a
\* number followed by a letter, and the empty string.
TimeoutArgs ==
    { << 0 >>, << 1 >>, << 7, 0 >>, << 6, 5, 5, 3, 5 >>, << 6, 5, 5, 3, 6 >>,
      << 6, 5, 5, 3, 7 >>, << NonDigit >>, << 1, 2, NonDigit >>, << >> }

\* The arguments of --pcr-file, as the pieces between the ':' characters
\* of optarg: "yaml:ref.yaml", "yaml:ref2.yaml", "yaml:missing.yaml",
\* "yaml", "json:ref.yaml", ":yaml:ref.yaml", "yaml:ref.yaml:x", "".
PcrFileArgs ==
    { << "yaml", "ref.yaml" >>, << "yaml", "ref2.yaml" >>,
      << "yaml", "missing.yaml" >>, << "yaml" >>, << "json", "ref.yaml" >>,
      << "", "yaml", "ref.yaml" >>, << "yaml", "ref.yaml", "x" >>, << "" >> }

\* The arguments of --attestation-public-key.
PublicKeyArgs == {"key.pem", "key2.pem", "missing.pem"}

\* The state the option handlers of this section work on, and the option
\* handled last with the paths as they were before it.
NoOptions ==
    [timeout |-> DefaultTimeout,
     reference_pcr_file_path |-> NullPath,
     attestation_public_key_path |-> NullPath,
     option |-> NoOption, rc |-> 0,
     timeout_arg |-> << >>, file_arg |-> << >>, key_arg |-> "",
     prev_reference_pcr_file_path |-> NullPath,
     prev_attestation_public_key_path |-> NullPath,
     nonzero |-> 0, checked |-> FALSE]

\* An option handler has returned rc: the option is the one handled last,
\* nonzero counts the handlers that returned a value other than 0.
OptionHandled(opt, option, rc) ==
    [opt EXCEPT !.option = option, !.rc = rc,
                !.prev_reference_pcr_file_path = opt.reference_pcr_file_path,
                !.prev_attestation_public_key_path =
                    opt.attestation_public_key_path,
                !.nonzero = IF rc # 0 THEN @ + 1 ELSE @]

\* strtoul(optarg, &end, 10) on a string without sign or white space: the
\* value of the longest prefix of digits, and how many characters it has
\* (end == optarg when it has none).
strtoul(optarg) ==
    LET digits == { n \in 0..Len(optarg) :
                      \A i \in 1..n : optarg[i] # NonDigit }
        end    == CHOOSE n \in digits : \A m \in digits : m <= n
    IN  [value |-> DecimalValue(SubSeq(optarg, 1, end)), end |-> end]

\* charra_cli_verifier_timeout: *timeout = (uint16_t)strtoul(optarg, &end,
\* 10); -1 when *timeout == 0 or end == optarg.
charra_cli_verifier_timeout(optarg) ==
    LET r == strtoul(optarg)
        t == r.value % UINT16_RANGE
    IN  [rc |-> IF t = 0 \/ r.end = 0 THEN -1 ELSE 0, timeout |-> t]

\* strtok(optarg, ":") and strtok(NULL, ":"): the first and the second
\* non-empty piece of optarg, NULL when there is none.
strtok(pieces, k) ==
    LET tokens == SelectSeq(pieces, LAMBDA x : x # "")
    IN  IF k <= Len(tokens) THEN tokens[k] ELSE NullPath

charra_cli_verifier_pcr_file_StoreFirst(path_before, optarg) ==
    LET format == strtok(optarg, 1)
        path   == strtok(optarg, 2)
    IN  IF path = NullPath THEN [rc |-> -1, path |-> path_before]
        ELSE IF format # "yaml" THEN [rc |-> -1, path |-> path]
        ELSE IF path \in ExistingFiles THEN [rc |-> 0, path |-> path]
        ELSE [rc |-> -1, path |-> path]

\* charra_cli_verifier_pcr_file: -1 without a second token, -1 when the
\* format is not "yaml", the path stored and 0 when the file exists, -1
\* otherwise.
charra_cli_verifier_pcr_file(path_before, optarg) ==
    LET format == strtok(optarg, 1)
        path   == strtok(optarg, 2)
    IN  IF path = NullPath THEN [rc |-> -1, path |-> path_before]
        ELSE IF format # "yaml" THEN [rc |-> -1, path |-> path_before]
        ELSE IF path \in ExistingFiles THEN [rc |-> 0, path |-> path]
        ELSE [rc |-> -1, path |-> path_before]

\* charra_cli_verifier_attestation_public_key: -1 when the file does not
\* exist, the path stored and 0 otherwise.
charra_cli_verifier_attestation_public_key(path_before, optarg) ==
    IF optarg \notin ExistingFiles
       THEN [rc |-> -1, path |-> path_before]
       ELSE [rc |-> 0, path |-> optarg]

charra_check_required_options_KeyOnly(reference_path, public_key_path) ==
    IF public_key_path = NullPath THEN -1 ELSE 0

\* charra_check_required_options: -1 when the PCR reference file or the
\* attestation public key file was not specified.
charra_check_required_options(reference_path, public_key_path) ==
    IF reference_path = NullPath THEN -1
    ELSE IF public_key_path = NullPath THEN -1
    ELSE 0

(* ------------------------------------------------------------------ *)
(* Verifier: the --hash-algorithm and --pcr-log options, and main's    *)
(* return on a parser result other than 0                              *)
(* ------------------------------------------------------------------ *)

\* signature_hash_algorithm as initialised: sha256 for both libraries.
DefaultHashAlgorithm ==
    [mbedtls_hash_algorithm |-> "MBEDTLS_MD_SHA256",
     tpm2_hash_algorithm |-> "TPM2_ALG_SHA256"]

SupportedHashAlgorithms == {"sha1", "sha256", "sha384", "sha512"}

\* The values --hash-algorithm may be given.
HashAlgorithmArgs ==
    SupportedHashAlgorithms \cup {"sm3_256", "sha3_256", "SHA256", ""}

charra_cli_verifier_hash_algorithm_AcceptUnknown(hash_algo, optarg) ==
    CASE optarg = "sha1" ->
            [rc |-> 0,
             hash_algo |-> [mbedtls_hash_algorithm |-> "MBEDTLS_MD_SHA1",
                            tpm2_hash_algorithm |-> "TPM2_ALG_SHA1"]]
      [] optarg = "sha256" ->
            [rc |-> 0,
             hash_algo |-> [mbedtls_hash_algorithm |-> "MBEDTLS_MD_SHA256",
                            tpm2_hash_algorithm |-> "TPM2_ALG_SHA256"]]
      [] optarg = "sha384" ->
            [rc |-> 0,
             hash_algo |-> [mbedtls_hash_algorithm |-> "MBEDTLS_MD_SHA384",
                            tpm2_hash_algorithm |-> "TPM2_ALG_SHA384"]]
      [] optarg = "sha512" ->
            [rc |-> 0,
             hash_algo |-> [mbedtls_hash_algorithm |-> "MBEDTLS_MD_SHA512",
                            tpm2_hash_algorithm |-> "TPM2_ALG_SHA512"]]
      [] OTHER -> [rc |-> 0, hash_algo |-> hash_algo]

\* charra_cli_verifier_hash_algorithm: the strcmp chain over optarg
charra_cli_verifier_hash_algorithm(hash_algo, optarg) ==
    CASE optarg = "sha1" ->
            [rc |-> 0,
             hash_algo |-> [mbedtls_hash_algorithm |-> "MBEDTLS_MD_SHA1",
                            tpm2_hash_algorithm |-> "TPM2_ALG_SHA1"]]
      [] optarg = "sha256" ->
            [rc |-> 0,
             hash_algo |-> [mbedtls_hash_algorithm |-> "MBEDTLS_MD_SHA256",
                            tpm2_hash_algorithm |-> "TPM2_ALG_SHA256"]]
      [] optarg = "sha384" ->
            [rc |-> 0,
             hash_algo |-> [mbedtls_hash_algorithm |-> "MBEDTLS_MD_SHA384",
                            tpm2_hash_algorithm |-> "TPM2_ALG_SHA384"]]
      [] optarg = "sha512" ->
            [rc |-> 0,
             hash_algo |-> [mbedtls_hash_algorithm |-> "MBEDTLS_MD_SHA512",
                            tpm2_hash_algorithm |-> "TPM2_ALG_SHA512"]]
      [] OTHER -> [rc |-> -1, hash_algo |-> hash_algo]

\* An entry of pcr_logs that was never written: identifier == NULL.
NullPcrLog == [identifier |-> "NULL", start |-> 0, count |-> 0]

PcrLogSlots == 0..(SUPPORTED_PCR_LOGS_COUNT - 1)

\* The FORMAT parts and the START,COUNT parts --pcr-log may be given: the
\* value is the list of its comma-separated tokens.
PcrLogFormats == {"ima", "tcg-boot", "uefi"}

PcrLogTokens == { << 0 >>, << 5 >>, << NonDigit >> }

PcrLogValues ==
    { << t >> : t \in PcrLogTokens } \cup
    { << t, u >> : t \in PcrLogTokens, u \in PcrLogTokens }

\* charra_parse_pcr_log_start_count: strtok twice; -1 when there is no
\* second number or one of the two does not parse.
charra_parse_pcr_log_start_count(value) ==
    IF Len(value) < 2 THEN [rc |-> -1, start |-> 0, count |-> 0]
    ELSE LET n1 == charra_cli_util_common_parse_option_as_ulong(value[1])
             n2 == charra_cli_util_common_parse_option_as_ulong(value[2])
         IN  IF n1.rc # 0 THEN [rc |-> -1, start |-> 0, count |-> 0]
             ELSE IF n2.rc # 0
                     THEN [rc |-> -1, start |-> n1.value, count |-> 0]
                     ELSE [rc |-> 0, start |-> n1.value,
                           count |-> n2.value]

\* charra_check_pcr_log_format
charra_check_pcr_log_format(format) ==
    IF format = "ima" \/ format = "tcg-boot" THEN 0 ELSE -1

\* strncmp(identifier, stored, strlen(identifier)) == 0: identifier is a
\* prefix of the stored identifier.  No format that passes the check is a
\* proper prefix of another.
IdentifierMatches(identifier, stored) == identifier = stored

RECURSIVE CalculateIndex_NoOverride(_, _, _, _)
CalculateIndex_NoOverride(logs, len, identifier, index) ==
    IF index >= SUPPORTED_PCR_LOGS_COUNT THEN [index |-> index, len |-> len]
    ELSE IF logs[index].identifier = "NULL"
            THEN [index |-> index, len |-> len + 1]
            ELSE CalculateIndex_NoOverride(logs, len, identifier, index + 1)

\* charra_calculate_index_and_update_length, from index on: the first slot
\* that is free (the length grows by one) or holds the identifier.
RECURSIVE charra_calculate_index_and_update_length(_, _, _, _)
charra_calculate_index_and_update_length(logs, len, identifier, index) ==
    IF index >= SUPPORTED_PCR_LOGS_COUNT THEN [index |-> index, len |-> len]
    ELSE IF logs[index].identifier = "NULL"
            THEN [index |-> index, len |-> len + 1]
            ELSE IF IdentifierMatches(identifier, logs[index].identifier)
                    THEN [index |-> index, len |-> len]
                    ELSE charra_calculate_index_and_update_length(
                             logs, len, identifier, index + 1)

\* No bank token parsed yet: named[b] will hold the list given last for
\* bank b in the current expression.
NoInput ==
    [name |-> "none", list |-> [all |-> FALSE, tokens |-> << >>],
     named |-> [b \in Banks |->
                  [given |-> FALSE,
                   list |-> [all |-> FALSE, tokens |-> << >>]]]]

NoRequest == << >>

CInit ==
    /\ c_pc = "getopt"
    /\ c_rc = 0
    /\ c_sel = StaticPcrSelection
    /\ c_len = StaticPcrSelectionLen
    /\ c_opts = 0
    /\ c_tokens = 0
    /\ c_input = NoInput
    /\ c_request = NoRequest
    /\ c_hash = DefaultHashAlgorithm
    /\ c_hash_opt = NoOption
    /\ c_hash_hist = << >>
    /\ c_pcr_logs = [i \in PcrLogSlots |-> NullPcrLog]
    /\ c_pcr_log_len = 0
    /\ c_log_hist = << >>
    /\ c_log_opt = NoOption
    /\ c_nopt = 0
    /\ c_opt = NoOptions
    /\ c_result = "none"

CFrame == UNCHANGED << a_vars, v_vars, k_vars >>

\* getopt_long returns CLI_VERIFIER_PCR_SELECTION:
\* charra_cli_verifier_pcr_selection overwrites the selection with zeros
\* and starts charra_cli_verifier_parse_pcr_selection on optarg.
CPcrSelectionOption ==
    /\ c_pc = "getopt"
    /\ c_opts < MaxSelectionOptions
    /\ c_opts' = c_opts + 1
    /\ c_sel' = [b \in Banks |-> ZeroBank]
    /\ c_len' = [b \in Banks |-> 0]
    /\ c_tokens' = 0
    /\ c_input' = NoInput
    /\ c_pc' = "bank_token"
    /\ UNCHANGED << c_rc, c_request >>
    /\ UNCHANGED << c_cfg_vars, c_result >>
    /\ CFrame

\* One turn of the while loop of charra_cli_verifier_parse_pcr_selection:
\* the next "+"-separated bank token, its name, its bank index, and
\* charra_cli_verifier_parse_pcr_bank on its list.  Any failure ends the
\* parser with rc = -1.
CParseBankToken ==
    /\ c_pc = "bank_token"
    /\ c_tokens < MaxBankTokens
    /\ \E name \in BankNames, list \in PcrLists :
          LET bank == charra_cli_verifier_parse_pcr_bank_to_index(name)
          IN  /\ c_input' =
                    [name |-> name, list |-> list,
                     named |-> IF bank \in Banks
                                  THEN [c_input.named EXCEPT ![bank] =
                                          [given |-> TRUE, list |-> list]]
                                  ELSE c_input.named]
              /\ c_tokens' = c_tokens + 1
              /\ IF name = "" \/ bank < 0 \/ bank >= TPM2_PCR_BANK_COUNT
                    THEN /\ c_rc' = -1
                         /\ c_pc' = "parsed"
                         /\ UNCHANGED << c_sel, c_len >>
                    ELSE LET r == charra_cli_verifier_parse_pcr_bank(
                                      c_sel[bank], c_len[bank], list)
                         IN  /\ c_sel' = [c_sel EXCEPT ![bank] = r.bank]
                             /\ c_len' = [c_len EXCEPT ![bank] = r.len]
                             /\ IF r.rc # 0
                                   THEN c_rc' = -1 /\ c_pc' = "parsed"
                                   ELSE UNCHANGED << c_rc, c_pc >>
    /\ UNCHANGED << c_opts, c_request >>
    /\ UNCHANGED << c_cfg_vars, c_result >>
    /\ CFrame

\* charra_cli_verifier_strtok returns NULL: the expression is used up,
\* charra_cli_verifier_parse_pcr_selection returns 0 and the option loop
\* goes on.
CParseSelectionEnd ==
    /\ c_pc = "bank_token"
    /\ c_pc' = "getopt"
    /\ UNCHANGED << c_rc, c_sel, c_len, c_opts, c_tokens, c_input,
                    c_request >>
    /\ UNCHANGED << c_cfg_vars, c_result >>
    /\ CFrame

\* getopt_long returns -1: rc = charra_check_required_options(variables),
\* which looks at the PCR reference file and the attestation public key.
CCheckRequiredOptions ==
    /\ c_pc = "getopt"
    /\ \E files_given \in BOOLEAN :
          c_rc' = IF files_given THEN 0 ELSE -1
    /\ c_pc' = "parsed"
    /\ UNCHANGED << c_sel, c_len, c_opts, c_tokens, c_input, c_request >>
    /\ UNCHANGED << c_cfg_vars, c_result >>
    /\ CFrame

\* The pcr_selections of the request create_attestation_request builds:
\* pcr_selections_len = 1, the entry TPM2_ALG_SHA256 with
\* tpm_pcr_selection_len[1] indices copied from tpm_pcr_selection[1].
create_attestation_request(sel, len) ==
    << [tcg_hash_alg_id |-> "TPM2_ALG_SHA256",
        pcrs |-> SubSeq(sel[1], 1, len[1])] >>

\* main, after a successful parse: create_attestation_request
CCreateRequest ==
    /\ c_pc = "parsed"
    /\ c_rc = 0
    /\ c_request' = create_attestation_request(c_sel, c_len)
    /\ c_pc' = "requested"
    /\ UNCHANGED << c_rc, c_sel, c_len, c_opts, c_tokens, c_input >>
    /\ UNCHANGED << c_cfg_vars, c_result >>
    /\ CFrame

\* An option failed: the option loop ends with rc = -1.
COptionFailed ==
    /\ c_rc' = -1
    /\ c_pc' = "parsed"

\* getopt_long returns CLI_VERIFIER_HASH_ALGORITHM
CHashAlgorithmOption ==
    /\ c_pc = "getopt"
    /\ c_nopt < MaxCliOptions
    /\ c_nopt' = c_nopt + 1
    /\ \E optarg \in HashAlgorithmArgs :
          LET r == charra_cli_verifier_hash_algorithm(c_hash, optarg)
          IN  /\ c_hash_opt' = optarg
              /\ c_hash' = r.hash_algo
              /\ IF r.rc # 0
                    THEN COptionFailed /\ UNCHANGED c_hash_hist
                    ELSE /\ c_hash_hist' = Append(c_hash_hist, optarg)
                         /\ UNCHANGED << c_rc, c_pc >>
    /\ UNCHANGED << c_pcr_logs, c_pcr_log_len, c_log_hist, c_log_opt,
                    c_opt, c_result >>
    /\ UNCHANGED c_sel_vars
    /\ CFrame

\* getopt_long returns CLI_COMMON_PCR_LOG: charra_cli_verifier_pcr_log on
\* optarg = FORMAT:VALUE (an optarg that does not split fails as well).
CPcrLogOption ==
    /\ c_pc = "getopt"
    /\ c_nopt < MaxCliOptions
    /\ c_nopt' = c_nopt + 1
    /\ \E splits \in BOOLEAN, format \in PcrLogFormats,
          value \in PcrLogValues :
          LET sc  == charra_parse_pcr_log_start_count(value)
              idx == charra_calculate_index_and_update_length(
                         c_pcr_logs, c_pcr_log_len, format, 0)
          IN  /\ c_log_opt' = IF splits THEN format ELSE "unsplit"
              /\ IF ~splits \/ sc.rc # 0
                       \/ charra_check_pcr_log_format(format) # 0
                    THEN /\ COptionFailed
                         /\ UNCHANGED << c_pcr_logs, c_pcr_log_len,
                                         c_log_hist >>
                    ELSE IF idx.index >= SUPPORTED_PCR_LOGS_COUNT
                            THEN /\ COptionFailed
                                 /\ c_pcr_log_len' = idx.len
                                 /\ UNCHANGED << c_pcr_logs, c_log_hist >>
                            ELSE /\ c_pcr_log_len' = idx.len
                                 /\ c_pcr_logs' =
                                       [c_pcr_logs EXCEPT ![idx.index] =
                                          [identifier |-> format,
                                           start |-> sc.start,
                                           count |-> sc.count]]
                                 /\ c_log_hist' = Append(c_log_hist,
                                       [identifier |-> format,
                                        start |-> sc.start,
                                        count |-> sc.count])
                                 /\ UNCHANGED << c_rc, c_pc >>
    /\ UNCHANGED << c_hash, c_hash_opt, c_hash_hist, c_opt, c_result >>
    /\ UNCHANGED c_sel_vars
    /\ CFrame

\* getopt_long returns a common option:
\* charra_cli_util_common_parse_command_line_argument returns 0, -1 on a
\* parse error, or 1 when the help message was displayed.
CCommonOption ==
    /\ c_pc = "getopt"
    /\ c_nopt < MaxCliOptions
    /\ c_nopt' = c_nopt + 1
    /\ \E rc \in {0, 1, -1} :
          /\ c_opt' = OptionHandled(c_opt, "common", rc)
          /\ IF rc # 0 THEN c_rc' = rc /\ c_pc' = "parsed"
                       ELSE UNCHANGED << c_rc, c_pc >>
    /\ UNCHANGED << c_hash, c_hash_opt, c_hash_hist, c_pcr_logs,
                    c_pcr_log_len, c_log_hist, c_log_opt, c_result >>
    /\ UNCHANGED c_sel_vars
    /\ CFrame

\* main: the parser returned a value other than 0:
\* return (result == 1) ? CHARRA_RC_SUCCESS : CHARRA_RC_CLI_ERROR;
CMainReturn ==
    /\ c_pc = "parsed"
    /\ c_rc # 0
    /\ c_result' = IF c_rc = 1 THEN CHARRA_RC_SUCCESS
                               ELSE CHARRA_RC_CLI_ERROR
    /\ c_pc' = "exited"
    /\ UNCHANGED << c_rc, c_cfg_vars >>
    /\ UNCHANGED c_sel_vars
    /\ CFrame

\* The frame of the options of the parser that work on c_opt.
COptFrame ==
    /\ UNCHANGED << c_hash, c_hash_opt, c_hash_hist, c_pcr_logs,
                    c_pcr_log_len, c_log_hist, c_log_opt, c_result >>
    /\ UNCHANGED c_sel_vars
    /\ CFrame

\* if (rc != 0) goto cleanup; after an option handler returned rc
COptionReturned(rc) ==
    IF rc # 0 THEN COptionFailed ELSE UNCHANGED << c_rc, c_pc >>

\* getopt_long returns CLI_VERIFIER_TIMEOUT
CTimeoutOption ==
    /\ c_pc = "getopt"
    /\ c_nopt < MaxCliOptions
    /\ c_nopt' = c_nopt + 1
    /\ \E optarg \in TimeoutArgs :
          LET r == charra_cli_verifier_timeout(optarg)
          IN  /\ c_opt' = [OptionHandled(c_opt, "timeout", r.rc) EXCEPT
                              !.timeout = r.timeout,
                              !.timeout_arg = optarg]
              /\ COptionReturned(r.rc)
    /\ COptFrame

\* getopt_long returns CLI_VERIFIER_ATTESTATION_PUBLIC_KEY
CAttestationPublicKeyOption ==
    /\ c_pc = "getopt"
    /\ c_nopt < MaxCliOptions
    /\ c_nopt' = c_nopt + 1
    /\ \E optarg \in PublicKeyArgs :
          LET r == charra_cli_verifier_attestation_public_key(
                       c_opt.attestation_public_key_path, optarg)
          IN  /\ c_opt' = [OptionHandled(c_opt, "attestation-public-key",
                                         r.rc) EXCEPT
                              !.attestation_public_key_path = r.path,
                              !.key_arg = optarg]
              /\ COptionReturned(r.rc)
    /\ COptFrame

\* getopt_long returns CLI_VERIFIER_PCR_FILE
CPcrFileOption ==
    /\ c_pc = "getopt"
    /\ c_nopt < MaxCliOptions
    /\ c_nopt' = c_nopt + 1
    /\ \E optarg \in PcrFileArgs :
          LET r == charra_cli_verifier_pcr_file(
                       c_opt.reference_pcr_file_path, optarg)
          IN  /\ c_opt' = [OptionHandled(c_opt, "pcr-file", r.rc) EXCEPT
                              !.reference_pcr_file_path = r.path,
                              !.file_arg = optarg]
              /\ COptionReturned(r.rc)
    /\ COptFrame

\* getopt_long returns -1: rc = charra_check_required_options(variables);
\* goto cleanup.
CRequiredOptions ==
    /\ c_pc = "getopt"
    /\ c_rc' = charra_check_required_options(
                   c_opt.reference_pcr_file_path,
                   c_opt.attestation_public_key_path)
    /\ c_opt' = [c_opt EXCEPT !.checked = TRUE]
    /\ c_pc' = "parsed"
    /\ UNCHANGED c_nopt
    /\ COptFrame

CParserNext ==
    \/ CTimeoutOption
    \/ CAttestationPublicKeyOption
    \/ CPcrFileOption
    \/ CCommonOption
    \/ CRequiredOptions
    \/ CMainReturn
    \/ CCreateRequest

COptionsNext ==
    \/ CHashAlgorithmOption
    \/ CPcrLogOption
    \/ CCommonOption
    \/ CCheckRequiredOptions
    \/ CMainReturn
    \/ CCreateRequest

CNext ==
    \/ CPcrSelectionOption
    \/ CParseBankToken
    \/ CParseSelectionEnd
    \/ CCheckRequiredOptions
    \/ CCreateRequest

(* ------------------------------------------------------------------ *)
(* Verifier, --pcr-selection: properties                               *)
(* ------------------------------------------------------------------ *)

\* A --pcr-selection expression was parsed with success.
CSelectionParsed ==
    /\ c_opts >= 1
    /\ c_rc = 0
    /\ c_pc # "bank_token"

\* The hash algorithm id of each bank.
BankAlgId ==
    [b \in Banks |->
       CASE b = 0 -> "TPM2_ALG_SHA1"
         [] b = 1 -> "TPM2_ALG_SHA256"
         [] b = 2 -> "TPM2_ALG_SHA384"
         [] b = 3 -> "TPM2_ALG_SHA512"]

\* C13: after every successful parse of a --pcr-selection expression the
\* first tpm_pcr_selection_len[b] entries of every bank b are strictly
\* ascending.
C13_BanksStrictlyAscending ==
    CSelectionParsed =>
        \A b \in Banks :
            \A i \in 1..c_len[b], j \in 1..c_len[b] :
                i < j => c_sel[b][i] < c_sel[b][j]

\* C14: after CLI parsing has succeeded at least one bank of the selection
\* is non-empty.
C14_SomeBankNonEmpty ==
    (c_pc \in {"parsed", "requested"} /\ c_rc = 0) =>
        \E b \in Banks : c_len[b] > 0

\* C15: a bank token whose list holds an index above 23 is rejected, and no
\* index stored in a bank by a successful parse exceeds 23.
C15_IndicesWithinRange ==
    /\ (c_pc # "getopt" /\ ~c_input.list.all /\
        \E k \in 1..Len(c_input.list.tokens) :
           LET p == charra_cli_util_common_parse_option_as_ulong(
                        c_input.list.tokens[k])
           IN  p.rc = 0 /\ p.value > LastPcrIndex)
          => c_rc = -1
    /\ CSelectionParsed =>
          \A b \in Banks : \A i \in 1..c_len[b] :
              c_sel[b][i] <= LastPcrIndex

\* C16: the request built holds exactly one PCR selection entry for each
\* non-empty bank, with the bank's algorithm id and indices, and no entry
\* for an empty bank.
C16_RequestHasEveryNonEmptyBank ==
    c_pc = "requested" =>
        \A b \in Banks :
            LET entries == { k \in 1..Len(c_request) :
                               c_request[k].tcg_hash_alg_id = BankAlgId[b] }
            IN  IF c_len[b] = 0
                   THEN entries = {}
                   ELSE /\ Cardinality(entries) = 1
                        /\ \A k \in entries :
                              c_request[k].pcrs = SubSeq(c_sel[b], 1,
                                                         c_len[b])

\* The indices a PCR list names: every PCR for "all", the values of its
\* tokens otherwise.
ListedIndices(list) ==
    IF list.all THEN 0..(TPM2_MAX_PCRS - 1)
    ELSE { DecimalValue(list.tokens[k]) : k \in 1..Len(list.tokens) }

\* C34: after a successful parse of a --pcr-selection expression every
\* bank the expression does not name is empty, and every bank it names
\* holds exactly the indices of the list given last for it.
C34_SelectionReplaced ==
    CSelectionParsed =>
        \A b \in Banks :
            IF ~c_input.named[b].given
               THEN c_len[b] = 0
               ELSE { c_sel[b][i] : i \in 1..c_len[b] } =
                       ListedIndices(c_input.named[b].list)

(* ------------------------------------------------------------------ *)
(* Verifier, --hash-algorithm and --pcr-log: properties                *)
(* ------------------------------------------------------------------ *)

\* The two identifiers of each supported algorithm.
HashIdentifiers ==
    [name \in SupportedHashAlgorithms |->
       CASE name = "sha1"   -> [mbedtls_hash_algorithm |-> "MBEDTLS_MD_SHA1",
                                tpm2_hash_algorithm |-> "TPM2_ALG_SHA1"]
         [] name = "sha256" -> [mbedtls_hash_algorithm |-> "MBEDTLS_MD_SHA256",
                                tpm2_hash_algorithm |-> "TPM2_ALG_SHA256"]
         [] name = "sha384" -> [mbedtls_hash_algorithm |-> "MBEDTLS_MD_SHA384",
                                tpm2_hash_algorithm |-> "TPM2_ALG_SHA384"]
         [] name = "sha512" -> [mbedtls_hash_algorithm |-> "MBEDTLS_MD_SHA512",
                                tpm2_hash_algorithm |-> "TPM2_ALG_SHA512"]]

\* C21: an unsupported --hash-algorithm value ends the parser with -1, main
\* returns CHARRA_RC_CLI_ERROR with no request built, and the configured
\* pair of identifiers stays what the last accepted value (or the default)
\* made it; an accepted value is a supported one and sets both identifiers
\* to its algorithm.
C21_UnsupportedHashAlgorithmRejected ==
    /\ c_hash_opt \notin (SupportedHashAlgorithms \cup {NoOption}) =>
          /\ c_rc = -1
          /\ c_request = NoRequest
          /\ c_pc = "exited" => c_result = CHARRA_RC_CLI_ERROR
    /\ \A i \in 1..Len(c_hash_hist) :
          c_hash_hist[i] \in SupportedHashAlgorithms
    /\ c_hash = IF c_hash_hist = << >>
                   THEN DefaultHashAlgorithm
                   ELSE HashIdentifiers[c_hash_hist[Len(c_hash_hist)]]

\* C21 witness: sha384 was accepted, then sm3_256 was rejected and main
\* returned the CLI error with sha384 still configured.
C21_Witness ==
    /\ c_pc = "exited"
    /\ c_result = CHARRA_RC_CLI_ERROR
    /\ c_hash_opt = "sm3_256"
    /\ c_hash_hist = << "sha384" >>
    /\ c_hash.tpm2_hash_algorithm = "TPM2_ALG_SHA384"
    /\ c_hash.mbedtls_hash_algorithm = "MBEDTLS_MD_SHA384"

\* C22: the configured PCR log requests are the accepted --pcr-log options,
\* one entry per identifier with the start and count given last for it:
\* pcr_log_len is the number of distinct identifiers accepted and at most
\* SUPPORTED_PCR_LOGS_COUNT, the first pcr_log_len entries hold pairwise
\* different identifiers out of "ima" and "tcg-boot", and an option with
\* any other identifier ends the parser with -1.
C22_PcrLogRequestsWellFormed ==
    LET given == { c_log_hist[i].identifier : i \in 1..Len(c_log_hist) }
        used  == { i \in PcrLogSlots : c_pcr_logs[i].identifier # "NULL" }
        Last(id) ==
            c_log_hist[CHOOSE i \in 1..Len(c_log_hist) :
                          /\ c_log_hist[i].identifier = id
                          /\ \A j \in (i + 1)..Len(c_log_hist) :
                                c_log_hist[j].identifier # id]
    IN  /\ c_pcr_log_len = Cardinality(given)
        /\ c_pcr_log_len <= SUPPORTED_PCR_LOGS_COUNT
        /\ used = { i \in PcrLogSlots : i < c_pcr_log_len }
        /\ { c_pcr_logs[i].identifier : i \in used } = given
        /\ \A i \in used :
              /\ c_pcr_logs[i].identifier \in {"ima", "tcg-boot"}
              /\ c_pcr_logs[i] = Last(c_pcr_logs[i].identifier)
              /\ \A j \in used :
                    i # j => c_pcr_logs[i].identifier #
                             c_pcr_logs[j].identifier
        /\ c_log_opt \notin {NoOption, "ima", "tcg-boot"} => c_rc = -1

\* C22 witness: an identifier was given twice with different starts, both
\* identifiers are configured, and the parse succeeded.
C22_Witness ==
    /\ c_rc = 0
    /\ c_pc = "parsed"
    /\ c_pcr_log_len = 2
    /\ \E i \in 1..Len(c_log_hist), j \in 1..Len(c_log_hist) :
          /\ i < j
          /\ c_log_hist[i].identifier = c_log_hist[j].identifier
          /\ c_log_hist[i].start # c_log_hist[j].start

(* ------------------------------------------------------------------ *)
(* Verifier, the parser's option loop: properties                      *)
(* ------------------------------------------------------------------ *)

\* A string is a decimal numeral.
IsNumeral(token) ==
    /\ token # << >>
    /\ \A i \in 1..Len(token) : token[i] # NonDigit

\* C33: --timeout is accepted iff its argument is a decimal numeral with a
\* value in 1..65535, and the timeout stored on acceptance is that value.
C33_TimeoutWithinUint16 ==
    c_opt.option = "timeout" =>
        LET arg == c_opt.timeout_arg
            ok  == /\ IsNumeral(arg)
                   /\ DecimalValue(arg) \in 1..(UINT16_RANGE - 1)
        IN  /\ (c_opt.rc = 0) <=> ok
            /\ c_opt.rc = 0 => c_opt.timeout = DecimalValue(arg)

\* C35: the option loop stops at the first handler that returns a value
\* other than 0 and the parser returns that value, no later option being
\* handled; the required-options check runs only when every option was
\* handled with 0, and yields -1 when the reference PCR file or the
\* attestation public key is missing; main turns -1 into
\* CHARRA_RC_CLI_ERROR and 1 (help displayed) into CHARRA_RC_SUCCESS, and
\* builds a request only after a parse that returned 0.
C35_ParserStopsAtFirstFailure ==
    /\ [](/\ c_opt.nonzero <= 1
          /\ c_opt.nonzero = 1 =>
                (c_rc = c_opt.rc /\ c_pc \in {"parsed", "exited"})
          /\ c_opt.checked =>
                /\ c_opt.nonzero = 0
                /\ c_rc = IF c_opt.reference_pcr_file_path # NullPath /\
                             c_opt.attestation_public_key_path # NullPath
                             THEN 0 ELSE -1
          /\ c_rc # 0 => (c_request = NoRequest /\ c_pc # "requested")
          /\ c_pc = "requested" => c_opt.checked
          /\ c_pc = "exited" =>
                c_result = IF c_rc = 1 THEN CHARRA_RC_SUCCESS
                                       ELSE CHARRA_RC_CLI_ERROR)
    /\ [][c_rc # 0 => (c_nopt' = c_nopt /\ c_opt' = c_opt)]_vars

\* C35 witness: the options given were handled with 0, the reference PCR
\* file was not among them, and main returned the CLI error.
C35_Witness ==
    /\ c_pc = "exited"
    /\ c_result = CHARRA_RC_CLI_ERROR
    /\ c_opt.checked
    /\ c_opt.attestation_public_key_path # NullPath
    /\ c_opt.reference_pcr_file_path = NullPath

\* C37: --pcr-file returns 0 iff its format is "yaml" and the path after
\* the ':' is an existing file, --attestation-public-key iff its file
\* exists; after 0 the option's path is the one given and the other path
\* is as before; after a failure both paths are as before and the parser
\* fails.  No other option changes either path.
C37_PathsChangeOnlyOnSuccess ==
    LET ref      == c_opt.reference_pcr_file_path
        key      == c_opt.attestation_public_key_path
        ref_same == ref = c_opt.prev_reference_pcr_file_path
        key_same == key = c_opt.prev_attestation_public_key_path
    IN  /\ c_opt.option = "pcr-file" =>
              /\ (c_opt.rc = 0) <=>
                    (/\ strtok(c_opt.file_arg, 1) = "yaml"
                     /\ strtok(c_opt.file_arg, 2) \in ExistingFiles)
              /\ c_opt.rc = 0 =>
                    (ref = strtok(c_opt.file_arg, 2) /\ key_same)
              /\ c_opt.rc # 0 => (ref_same /\ key_same /\ c_rc = -1)
        /\ c_opt.option = "attestation-public-key" =>
              /\ (c_opt.rc = 0) <=> (c_opt.key_arg \in ExistingFiles)
              /\ c_opt.rc = 0 => (key = c_opt.key_arg /\ ref_same)
              /\ c_opt.rc # 0 => (ref_same /\ key_same /\ c_rc = -1)
        /\ c_opt.option \notin {"pcr-file", "attestation-public-key"} =>
              (ref_same /\ key_same)

\* C37 witness: a reference PCR file was configured, a later --pcr-file
\* named a missing file, and main returned the CLI error with the earlier
\* path still configured.
C37_Witness ==
    /\ c_pc = "exited"
    /\ c_result = CHARRA_RC_CLI_ERROR
    /\ c_opt.option = "pcr-file"
    /\ c_opt.file_arg = << "yaml", "missing.yaml" >>
    /\ c_opt.prev_reference_pcr_file_path = "ref.yaml"
    /\ c_opt.reference_pcr_file_path = "ref.yaml"

(* ------------------------------------------------------------------ *)
(* charra_load_external_public_key                                     *)
(* ------------------------------------------------------------------ *)

MaxKeyLoads == 2

\* A NULL pointer argument.
NullPointer == "NULL"

\* The paths a caller may pass: NULL, the key files, a file that is
\* missing.
KeyPaths == {NullPath, "key.pem", "key2.pem", "missing.pem"}

\* The external_public_key arguments a caller may pass.
KeyPointers == {NullPointer, "TPM2B_PUBLIC"}

\* What the caller's key handle may hold at the call, and the handle
\* Esys_LoadExternal stores on success.
LoadedKeyHandle == "loaded key handle"
CallerKeyHandles == {ESYS_TR_NONE, "earlier key handle"}

KInit ==
    k_load = [pc |-> "idle", path |-> NullPath,
              external_public_key |-> NullPointer,
              key_handle |-> ESYS_TR_NONE, key_handle_before |-> ESYS_TR_NONE,
              read_ok |-> FALSE, load_ok |-> FALSE, tpm_commands |-> 0,
              rc |-> "none", calls |-> 0]

KFrame == UNCHANGED << a_vars, v_vars, c_vars >>

\* return rc
KReturn(rc) == k_load' = [k_load EXCEPT !.rc = rc, !.pc = "returned"]

\* A caller calls charra_load_external_public_key(ctx,
\* external_public_key, key_handle, path).
KCall ==
    /\ k_load.pc \in {"idle", "returned"}
    /\ k_load.calls < MaxKeyLoads
    /\ \E path \in KeyPaths, key \in KeyPointers, handle \in CallerKeyHandles :
          k_load' = [pc |-> "check_path", path |-> path,
                     external_public_key |-> key,
                     key_handle |-> handle, key_handle_before |-> handle,
                     read_ok |-> FALSE, load_ok |-> FALSE,
                     tpm_commands |-> 0, rc |-> "none",
                     calls |-> k_load.calls + 1]
    /\ KFrame

\* if (path == NULL) return CHARRA_RC_ERROR;
KCheckPath ==
    /\ k_load.pc = "check_path"
    /\ IF k_load.path = NullPath
          THEN KReturn(CHARRA_RC_ERROR)
          ELSE k_load' = [k_load EXCEPT !.pc = "check_key"]
    /\ KFrame

\* if (external_public_key == NULL) return CHARRA_RC_ERROR;
KCheckKey ==
    /\ k_load.pc = "check_key"
    /\ IF k_load.external_public_key = NullPointer
          THEN KReturn(CHARRA_RC_ERROR)
          ELSE k_load' = [k_load EXCEPT !.pc = "read_file"]
    /\ KFrame

KReadFile_IgnoreFailure ==
    /\ k_load.pc = "read_file"
    /\ \E readable \in BOOLEAN :
          k_load' = [k_load EXCEPT
                       !.read_ok = readable /\ k_load.path \in ExistingFiles,
                       !.pc = "load_external"]
    /\ KFrame

\* if (!tpm2_load_external_public_key_from_path(path,
\*         external_public_key)) return CHARRA_RC_ERROR;
\* A missing file cannot be read, an existing one may not hold a key.
KReadFile ==
    /\ k_load.pc = "read_file"
    /\ \E readable \in BOOLEAN :
          IF readable /\ k_load.path \in ExistingFiles
             THEN k_load' = [k_load EXCEPT !.read_ok = TRUE,
                                           !.pc = "load_external"]
             ELSE KReturn(CHARRA_RC_ERROR)
    /\ KFrame

\* r = Esys_LoadExternal(..., key_handle); CHARRA_RC_ERROR when it fails,
\* CHARRA_RC_SUCCESS otherwise.  A failed Esys_LoadExternal may leave the
\* handle or reset it.
KLoadExternal ==
    /\ k_load.pc = "load_external"
    /\ \/ k_load' = [k_load EXCEPT !.tpm_commands = @ + 1,
                                    !.load_ok = TRUE,
                                    !.key_handle = LoadedKeyHandle,
                                    !.rc = CHARRA_RC_SUCCESS,
                                    !.pc = "returned"]
       \/ \E handle \in {k_load.key_handle, ESYS_TR_NONE} :
             k_load' = [k_load EXCEPT !.tpm_commands = @ + 1,
                                      !.key_handle = handle,
                                      !.rc = CHARRA_RC_ERROR,
                                      !.pc = "returned"]
    /\ KFrame

KNext ==
    \/ KCall
    \/ KCheckPath
    \/ KCheckKey
    \/ KReadFile
    \/ KLoadExternal

\* C36: charra_load_external_public_key returns CHARRA_RC_SUCCESS only if
\* reading the key from the file and Esys_LoadExternal both succeeded; with
\* a NULL path, a NULL key pointer or an unreadable file it returns
\* CHARRA_RC_ERROR, and on these paths no TPM command is issued and the
\* caller's key handle is as it was.
C36_LoadExternalPublicKey ==
    /\ k_load.tpm_commands > 0 =>
          /\ k_load.path # NullPath
          /\ k_load.external_public_key # NullPointer
          /\ k_load.read_ok
    /\ k_load.tpm_commands = 0 => k_load.key_handle = k_load.key_handle_before
    /\ k_load.pc = "returned" =>
          /\ k_load.rc \in {CHARRA_RC_SUCCESS, CHARRA_RC_ERROR}
          /\ k_load.rc = CHARRA_RC_SUCCESS <=>
                (k_load.read_ok /\ k_load.load_ok)
          /\ (k_load.path = NullPath
                 \/ k_load.external_public_key = NullPointer
                 \/ ~k_load.read_ok) =>
                /\ k_load.rc = CHARRA_RC_ERROR
                /\ k_load.tpm_commands = 0
                /\ k_load.key_handle = k_load.key_handle_before

\* C36 witness: the key file could not be read, and the call returned the
\* error with the caller's earlier handle in place.
C36_Witness ==
    /\ k_load.pc = "returned"
    /\ k_load.path = "key.pem"
    /\ k_load.external_public_key # NullPointer
    /\ ~k_load.read_ok
    /\ k_load.rc = CHARRA_RC_ERROR
    /\ k_load.key_handle = "earlier key handle"

Init == AInit /\ VInit /\ CInit /\ KInit

Next == ANext

Spec == Init /\ [][Next]_vars

SpecVerifier == Init /\ [][VNext]_vars

SpecVerifierSilent == Init /\ [][VSilentNext]_vars

SpecCli == Init /\ [][CNext]_vars

SpecCliOptions == Init /\ [][COptionsNext]_vars

SpecCliParser == Init /\ [][CParserNext]_vars

SpecKeyMgr == Init /\ [][KNext]_vars

====
